---- MODULE Spec2Model ----
(***************************************************************************)
(* supertunnel: the continuous ssh supervisor (supertunnel/ssh/continuous  *)
(* .py) and the ssh configuration model (supertunnel/ssh/config.py,        *)
(* supertunnel/ssh/helpers.py, supertunnel/port.py).                       *)
(*                                                                         *)
(* Spec       : ContinuousSSH.run with one child process as environment.   *)
(* SpecConfig : SSHConfiguration objects under assignments, set_host,      *)
(*              extend, rule-list appends and copy().                      *)
(* SpecCommand: the command group of supertunnel/command.py under click,   *)
(*              up to the vectors a subcommand echoes or launches.         *)
(* SpecTimer  : the pacing of run(), with the clock reads made explicit.   *)
(* SpecRegistry: the descriptor registry under __set_name__ calls.         *)
(*                                                                         *)
(* Times are in tenths of a second (0.1 s = 1, 2.0 s = 20); doubling and   *)
(* min are exact on these values in binary floating point as well.         *)
(***************************************************************************)
EXTENDS Integers, Sequences, FiniteSets, TLC

VARIABLES
    pc,             \* position of the supervisor thread in run/_backoff/_run_once
    exc,            \* exception in flight: "none", "KeyboardInterrupt", "Error"
    status,         \* StatusMessage._status
    message,        \* StatusMessage._message (a line, <<>> for "")
    hist,           \* statuses set during the current attempt, repeats removed
    proc,           \* the Popen handle: returncode and the readable end of the pipe
    child,          \* the child process itself (environment)
    kills,          \* proc.kill() calls in the current attempt
    terminates,     \* proc.terminate() calls in the current attempt
    killBeforeDisc, \* was the last kill invoked before any "disconnected" status
    rollovers,      \* doRollover() calls in the current attempt
    orphans,        \* children of earlier attempts still running at a launch
    attempt,        \* "none", "running" (Popen returned), "ended" (_run_once left)
    backoff_time,   \* ContinuousSSH._backoff_time
    duration,       \* _backoff: duration
    waittime,       \* _backoff: waittime
    cfgs,           \* configuration objects: 1 = cfg, 2 = its copy
    heap,           \* list objects shared by reference: id -> sequence
    nops,           \* operations performed on the configurations
    port,           \* one ForwardingPort.parse / str / parse round: the call record
    clean,          \* one clean_ports consumption: the call record
    call,           \* one call of _handle_ssh_line or set_host: input and result
    cli,            \* one invocation of the command group: contexts and objects
    timer,          \* the pacing loop of run(): the clock and its reads
    reg             \* a configuration type's registry under registrations

supVars == <<pc, exc, status, message, hist, proc, child, kills, terminates,
             killBeforeDisc, rollovers, orphans, attempt, backoff_time,
             duration, waittime>>
cfgVars == <<cfgs, heap, nops>>
portVars == <<port, clean, call>>
cmdVars == <<cli, timer, reg>>
vars == <<supVars, cfgVars, portVars, cmdVars>>

(***************************************************************************)
(* Bounds                                                                  *)
(***************************************************************************)
MaxDuration == 20

(***************************************************************************)
(* Child output lines.  A line is the sequence of its text fragments, so   *)
(* that a prefix test and a substring test are computed on the text.       *)
(***************************************************************************)
LineEntering == <<"Entering interactive session">>
LineDebug == <<"debug1:", "x">>
LineNotResponding == <<"Host y ", "not responding">>
LineDebugNotResponding == <<"debug1:", "Your server is ", "not responding">>

C1Output == <<LineEntering, LineDebug, LineNotResponding>>

Outputs ==
    { C1Output,
      <<>>,
      <<LineEntering, LineDebugNotResponding>>,
      <<LineNotResponding, LineEntering>>,
      <<LineNotResponding, LineNotResponding>> }

StartsWith(line, prefix) == Len(line) > 0 /\ line[1] = prefix
Contains(line, marker) == \E i \in 1..Len(line) : line[i] = marker

Min(a, b) == IF a < b THEN a ELSE b
Last(s) == s[Len(s)]

(***************************************************************************)
(* Action(enum) and _handle_ssh_line                                       *)
(***************************************************************************)
CONTINUE == "CONTINUE"
CONNECTED == "CONNECTED"
DISCONNECTED == "DISCONNECTED"

\* mutant: the prefix is left on the line
LoggedLineKeep(line) == line

\* the line as logged and displayed: a "debug1:" prefix is cut off
LoggedLine(line) == IF StartsWith(line, "debug1:") THEN Tail(line) ELSE line

HandleSSHLine(line) ==
    LET l == LoggedLine(line)
        a1 == IF Contains(l, "Entering interactive session") THEN CONNECTED ELSE CONTINUE
        a2 == IF Contains(l, "not responding") THEN DISCONNECTED ELSE a1
    IN  [action |-> a2, message |-> l]

(***************************************************************************)
(* StatusMessage.status / .message                                         *)
(***************************************************************************)
SetStatus(s) ==
    /\ status' = s
    /\ hist' = IF hist # <<>> /\ Last(hist) = s THEN hist ELSE Append(hist, s)

(***************************************************************************)
(* The child process (environment): it writes the lines of its output to   *)
(* the pipe one at a time and exits on its own, if it is one that does, or *)
(* once a signal sent by the supervisor is delivered.  Delivery and exit   *)
(* are asynchronous to the supervisor.                                     *)
(***************************************************************************)
NoChild ==
    [alive |-> FALSE, script |-> <<>>, output |-> <<>>, exits |-> FALSE,
     signal |-> "none", exitcode |-> "None"]
NoProc == [returncode |-> "None", stdout |-> <<>>]

ChildWrite ==
    /\ child.alive
    /\ child.script # <<>>
    /\ proc' = [proc EXCEPT !.stdout = Append(@, Head(child.script))]
    /\ child' = [child EXCEPT !.script = Tail(@)]
    /\ UNCHANGED <<pc, exc, status, message, hist, kills, terminates,
                   killBeforeDisc, rollovers, orphans, attempt, backoff_time,
                   duration, waittime, cfgVars,
                   portVars, cmdVars>>

ExitCodes == {"0", "1"}

ChildExit ==
    /\ child.alive
    /\ child.signal # "none" \/ (child.script = <<>> /\ child.exits)
    /\ \E code \in ExitCodes :
         child' = [child EXCEPT
                     !.alive = FALSE,
                     !.exitcode = IF child.signal = "KILL" THEN "-9"
                                  ELSE IF child.signal = "TERM" THEN "-15"
                                  ELSE code]
    /\ UNCHANGED <<pc, exc, status, message, hist, proc, kills, terminates,
                   killBeforeDisc, rollovers, orphans, attempt, backoff_time,
                   duration, waittime, cfgVars,
                   portVars, cmdVars>>

\* os.kill on the child: a signal sent to a process that has exited is lost
Signalled(c, sig) ==
    IF c.alive /\ c.signal = "none" THEN [c EXCEPT !.signal = sig] ELSE c

(***************************************************************************)
(* ContinuousSSH.run, _backoff                                             *)
(***************************************************************************)
FloorBackoff == 1
MaxBackoff == 20

\* run(): with self._messenger: try: while True: ...
RunEnter ==
    /\ pc = "idle"
    /\ pc' = "backoff_start"
    /\ UNCHANGED <<exc, status, message, hist, proc, child, kills, terminates,
                   killBeforeDisc, rollovers, orphans, attempt, backoff_time,
                   duration, waittime, cfgVars,
                   portVars, cmdVars>>

\* _backoff(): starttime = time.monotonic(); yield
BackoffStart ==
    /\ pc = "backoff_start"
    /\ pc' = "popen"
    /\ duration' = 0
    /\ waittime' = 0
    /\ UNCHANGED <<exc, status, message, hist, proc, child, kills, terminates,
                   killBeforeDisc, rollovers, orphans, attempt, backoff_time,
                   cfgVars,
                   portVars, cmdVars>>

\* _backoff(): duration = time.monotonic() - starttime; if duration < ...
BackoffAfter ==
    /\ pc = "backoff_after"
    /\ \E d \in 0..MaxDuration :
         /\ duration' = d
         /\ IF d < backoff_time
              THEN /\ waittime' = backoff_time - d
                   /\ pc' = "sleep"
                   /\ UNCHANGED backoff_time
              ELSE /\ backoff_time' = FloorBackoff
                   /\ pc' = "backoff_start"
                   /\ UNCHANGED waittime
    /\ UNCHANGED <<exc, status, message, hist, proc, child, kills, terminates,
                   killBeforeDisc, rollovers, orphans, attempt, cfgVars,
                   portVars, cmdVars>>

\* mutant: the doubling is not capped
BackoffSleepUncapped ==
    /\ pc = "sleep"
    /\ backoff_time' = 2 * backoff_time
    /\ pc' = "backoff_start"
    /\ UNCHANGED <<exc, status, message, hist, proc, child, kills, terminates,
                   killBeforeDisc, rollovers, orphans, attempt, duration,
                   waittime, cfgVars,
                   portVars, cmdVars>>

\* _backoff(): time.sleep(waittime); self._backoff_time = min(2.0 * ..., max)
BackoffSleep ==
    /\ pc = "sleep"
    /\ backoff_time' = Min(2 * backoff_time, MaxBackoff)
    /\ pc' = "backoff_start"
    /\ UNCHANGED <<exc, status, message, hist, proc, child, kills, terminates,
                   killBeforeDisc, rollovers, orphans, attempt, duration,
                   waittime, cfgVars,
                   portVars, cmdVars>>

\* mutant: the handler of run() is missing, the interrupt leaves run()
RunExceptUncaught ==
    /\ pc = "except"
    /\ pc' = "raised"
    /\ UNCHANGED <<exc, status, hist, message, proc, child, kills, terminates,
                   killBeforeDisc, rollovers, orphans, attempt, backoff_time,
                   duration, waittime, cfgVars,
                   portVars, cmdVars>>

\* mutant: run() handles every exception by going round the loop again
RunExceptRetry ==
    /\ pc = "except"
    /\ IF exc = "KeyboardInterrupt"
         THEN /\ SetStatus("disconnected")
              /\ pc' = "returned"
              /\ UNCHANGED exc
         ELSE /\ pc' = "backoff_start"
              /\ exc' = "none"
              /\ UNCHANGED <<status, hist>>
    /\ UNCHANGED <<message, proc, child, kills, terminates,
                   killBeforeDisc, rollovers, orphans, attempt, backoff_time,
                   duration, waittime, cfgVars,
                   portVars, cmdVars>>

\* mutant: run() catches Exception as well as KeyboardInterrupt
RunExceptSwallow ==
    /\ pc = "except"
    /\ SetStatus("disconnected")
    /\ pc' = "returned"
    /\ UNCHANGED <<exc, message, proc, child, kills, terminates,
                   killBeforeDisc, rollovers, orphans, attempt, backoff_time,
                   duration, waittime, cfgVars,
                   portVars, cmdVars>>

\* run(): except KeyboardInterrupt: status("disconnected"); anything else
\* leaves run() through the with-block, whose __exit__ returns None
RunExcept ==
    /\ pc = "except"
    /\ IF exc = "KeyboardInterrupt"
         THEN /\ SetStatus("disconnected")
              /\ pc' = "returned"
         ELSE /\ pc' = "raised"
              /\ UNCHANGED <<status, hist>>
    /\ UNCHANGED <<exc, message, proc, child, kills, terminates,
                   killBeforeDisc, rollovers, orphans, attempt, backoff_time,
                   duration, waittime, cfgVars,
                   portVars, cmdVars>>

(***************************************************************************)
(* ContinuousSSH._run_once and _await_output                               *)
(***************************************************************************)
\* positions inside the try block of _run_once (lines 152-173)
TryPCs ==
    {"connecting", "while", "select", "readline", "disc_status", "kill",
     "conn_status", "timeout", "poll", "wait", "end_status", "rollover"}

\* proc = subprocess.Popen(self.config.arguments(), ...)
Popen ==
    /\ pc = "popen"
    /\ \E out \in Outputs, ex \in BOOLEAN :
         child' = [alive |-> TRUE, script |-> out, output |-> out,
                   exits |-> ex, signal |-> "none", exitcode |-> "None"]
    /\ proc' = NoProc
    /\ orphans' = orphans + (IF child.alive THEN 1 ELSE 0)
    /\ attempt' = "running"
    /\ hist' = <<>>
    /\ kills' = 0
    /\ terminates' = 0
    /\ rollovers' = 0
    /\ killBeforeDisc' = FALSE
    /\ pc' = "launched"
    /\ UNCHANGED <<exc, status, message, backoff_time, duration, waittime,
                   cfgVars,
                   portVars, cmdVars>>

\* lines 142-150: pid filter and loggers, before the try block is entered
Launched ==
    /\ pc = "launched"
    /\ pc' = "connecting"
    /\ UNCHANGED <<exc, status, message, hist, proc, child, kills, terminates,
                   killBeforeDisc, rollovers, orphans, attempt, backoff_time,
                   duration, waittime, cfgVars,
                   portVars, cmdVars>>

\* try: self._messenger.status("connecting", fg="yellow")
Connecting ==
    /\ pc = "connecting"
    /\ SetStatus("connecting")
    /\ pc' = "while"
    /\ UNCHANGED <<exc, message, proc, child, kills, terminates,
                   killBeforeDisc, rollovers, orphans, attempt, backoff_time,
                   duration, waittime, cfgVars,
                   portVars, cmdVars>>

\* _await_output: while proc.returncode is None
While ==
    /\ pc = "while"
    /\ pc' = IF proc.returncode = "None" THEN "select" ELSE "wait"
    /\ UNCHANGED <<exc, status, message, hist, proc, child, kills, terminates,
                   killBeforeDisc, rollovers, orphans, attempt, backoff_time,
                   duration, waittime, cfgVars,
                   portVars, cmdVars>>

\* events = sel.select(timeout=timeout): readable when the pipe holds data or
\* is at end of file; otherwise the timeout elapses with no event
Select ==
    /\ pc = "select"
    /\ pc' = IF proc.stdout # <<>> \/ ~child.alive THEN "readline" ELSE "timeout"
    /\ UNCHANGED <<exc, status, message, hist, proc, child, kills, terminates,
                   killBeforeDisc, rollovers, orphans, attempt, backoff_time,
                   duration, waittime, cfgVars,
                   portVars, cmdVars>>

\* the position after _handle_ssh_line returned an action (lines 162-168)
AfterAction(action) ==
    IF action = DISCONNECTED THEN "disc_status"
    ELSE IF action = CONNECTED THEN "conn_status"
    ELSE "poll"

\* line = proc.stdout.readline(); if line: yield ...;
\* action = self._handle_ssh_line(line, sshlog)
ReadLine ==
    /\ pc = "readline"
    /\ IF proc.stdout # <<>>
         THEN LET h == HandleSSHLine(Head(proc.stdout)) IN
              /\ proc' = [proc EXCEPT !.stdout = Tail(@)]
              /\ message' = h.message
              /\ pc' = AfterAction(h.action)
         ELSE /\ pc' = "poll"
              /\ UNCHANGED <<proc, message>>
    /\ UNCHANGED <<exc, status, hist, child, kills, terminates,
                   killBeforeDisc, rollovers, orphans, attempt, backoff_time,
                   duration, waittime, cfgVars,
                   portVars, cmdVars>>

\* if action == Action.DISCONNECTED: self._messenger.status("disconnected")
DiscStatus ==
    /\ pc = "disc_status"
    /\ SetStatus("disconnected")
    /\ pc' = "kill"
    /\ UNCHANGED <<exc, message, proc, child, kills, terminates,
                   killBeforeDisc, rollovers, orphans, attempt, backoff_time,
                   duration, waittime, cfgVars,
                   portVars, cmdVars>>

\* proc.kill()
Kill ==
    /\ pc = "kill"
    /\ kills' = kills + 1
    /\ killBeforeDisc' = ~Contains(hist, "disconnected")
    /\ child' = Signalled(child, "KILL")
    /\ pc' = "poll"
    /\ UNCHANGED <<exc, status, message, hist, proc, terminates, rollovers,
                   orphans, attempt, backoff_time, duration, waittime, cfgVars,
                   portVars, cmdVars>>

\* if action == Action.CONNECTED: self._messenger.status("connected")
ConnStatus ==
    /\ pc = "conn_status"
    /\ SetStatus("connected")
    /\ pc' = "poll"
    /\ UNCHANGED <<exc, message, proc, child, kills, terminates,
                   killBeforeDisc, rollovers, orphans, attempt, backoff_time,
                   duration, waittime, cfgVars,
                   portVars, cmdVars>>

\* mutant: a timeout kills the child
TimeoutKill ==
    /\ pc = "timeout"
    /\ message' = <<>>
    /\ kills' = kills + 1
    /\ child' = Signalled(child, "KILL")
    /\ pc' = "poll"
    /\ UNCHANGED <<exc, status, hist, proc, terminates,
                   killBeforeDisc, rollovers, orphans, attempt, backoff_time,
                   duration, waittime, cfgVars,
                   portVars, cmdVars>>

\* if not events: self.timeout()  ->  self._messenger.message("")
Timeout ==
    /\ pc = "timeout"
    /\ message' = <<>>
    /\ pc' = "poll"
    /\ UNCHANGED <<exc, status, hist, proc, child, kills, terminates,
                   killBeforeDisc, rollovers, orphans, attempt, backoff_time,
                   duration, waittime, cfgVars,
                   portVars, cmdVars>>

\* Popen.poll(): sets returncode once the child has exited
Polled(p, c) == IF c.alive THEN p ELSE [p EXCEPT !.returncode = c.exitcode]

\* proc.poll() at the end of each round of _await_output
Poll ==
    /\ pc = "poll"
    /\ proc' = Polled(proc, child)
    /\ pc' = "while"
    /\ UNCHANGED <<exc, status, message, hist, child, kills, terminates,
                   killBeforeDisc, rollovers, orphans, attempt, backoff_time,
                   duration, waittime, cfgVars,
                   portVars, cmdVars>>

\* proc.wait(): blocks until the child has exited
Wait ==
    /\ pc = "wait"
    /\ ~child.alive
    /\ proc' = Polled(proc, child)
    /\ pc' = "end_status"
    /\ UNCHANGED <<exc, status, message, hist, child, kills, terminates,
                   killBeforeDisc, rollovers, orphans, attempt, backoff_time,
                   duration, waittime, cfgVars,
                   portVars, cmdVars>>

\* self._messenger.status("disconnected", fg="red") after the wait
EndStatus ==
    /\ pc = "end_status"
    /\ SetStatus("disconnected")
    /\ pc' = "rollover"
    /\ UNCHANGED <<exc, message, proc, child, kills, terminates,
                   killBeforeDisc, rollovers, orphans, attempt, backoff_time,
                   duration, waittime, cfgVars,
                   portVars, cmdVars>>

\* self._sshhandler.doRollover()
Rollover ==
    /\ pc = "rollover"
    /\ rollovers' = rollovers + 1
    /\ pc' = "finally"
    /\ UNCHANGED <<exc, status, message, hist, proc, child, kills, terminates,
                   killBeforeDisc, orphans, attempt, backoff_time, duration,
                   waittime, cfgVars,
                   portVars, cmdVars>>

\* finally: if proc.returncode is None: proc.terminate();
\* status("disconnected"); then _run_once returns or the exception goes on
Finally ==
    /\ pc = "finally"
    /\ IF proc.returncode = "None"
         THEN /\ terminates' = terminates + 1
              /\ child' = Signalled(child, "TERM")
         ELSE UNCHANGED <<terminates, child>>
    /\ SetStatus("disconnected")
    /\ attempt' = "ended"
    /\ pc' = IF exc = "none" THEN "backoff_after" ELSE "except"
    /\ UNCHANGED <<exc, message, proc, kills, killBeforeDisc, rollovers,
                   orphans, backoff_time, duration, waittime, cfgVars,
                   portVars, cmdVars>>

(***************************************************************************)
(* Exceptions.  A KeyboardInterrupt is raised by the signal handler        *)
(* between any two steps of the supervisor thread; an error is raised by   *)
(* the calls that enter the operating system.  Inside the try block of     *)
(* _run_once control goes to its finally block, elsewhere straight to the  *)
(* handler of run(); _backoff has no handler of its own, so the code after *)
(* its yield is skipped.                                                   *)
(***************************************************************************)
InterruptPCs ==
    TryPCs \cup {"backoff_start", "popen", "launched", "backoff_after", "sleep"}
ErrorPCs == {"popen", "select", "readline", "poll", "wait"}

Unwind(e) ==
    /\ exc' = e
    /\ pc' = IF pc \in TryPCs THEN "finally" ELSE "except"
    /\ attempt' = IF pc \notin TryPCs /\ attempt = "running" THEN "ended" ELSE attempt
    /\ UNCHANGED <<status, message, hist, proc, child, kills, terminates,
                   killBeforeDisc, rollovers, orphans, backoff_time, duration,
                   waittime, cfgVars,
                   portVars, cmdVars>>

RaiseKeyboardInterrupt ==
    /\ pc \in InterruptPCs
    /\ exc = "none"
    /\ Unwind("KeyboardInterrupt")

RaiseError ==
    /\ pc \in ErrorPCs
    /\ exc = "none"
    /\ Unwind("Error")

(***************************************************************************)
(* Python values.  A text is the sequence of its fragments; a value is     *)
(* tagged with its type.  Absent is a key that the option map lacks.       *)
(***************************************************************************)
T(s) == <<s>>
PyNone == <<"None">>
PyBool(b) == <<"bool", b>>
PyInt(n) == <<"int", n>>
PyStr(t) == <<"str", t>>
PyList(id) == <<"list", id>>
Absent == <<>>

TypeOf(v) == v[1]
Truthy(v) ==
    CASE TypeOf(v) = "None" -> FALSE
      [] TypeOf(v) = "bool" -> v[2]
      [] TypeOf(v) = "int" -> v[2] # 0
      [] TypeOf(v) = "str" -> v[2] # <<>>

DigitChars == <<"0", "1", "2", "3", "4", "5", "6", "7", "8", "9">>

\* "{:d}".format(n) for n >= 0: the decimal digits of n
RECURSIVE DecimalText(_)
DecimalText(n) ==
    IF n < 10 THEN <<DigitChars[n + 1]>>
    ELSE DecimalText(n \div 10) \o <<DigitChars[(n % 10) + 1]>>

DigitValue(ch) == CHOOSE k \in 0..9 : DigitChars[k + 1] = ch
IsDigit(ch) == \E k \in 0..9 : DigitChars[k + 1] = ch

RECURSIVE DigitsValue(_, _)
DigitsValue(t, acc) ==
    IF t = <<>> THEN acc ELSE DigitsValue(Tail(t), 10 * acc + DigitValue(Head(t)))

\* str.strip(): leading and trailing whitespace removed
Whitespace == {" "}

RECURSIVE LStrip(_)
LStrip(t) == IF t # <<>> /\ Head(t) \in Whitespace THEN LStrip(Tail(t)) ELSE t

RECURSIVE RStrip(_)
RStrip(t) ==
    IF t # <<>> /\ t[Len(t)] \in Whitespace
      THEN RStrip(SubSeq(t, 1, Len(t) - 1))
      ELSE t

Strip(t) == RStrip(LStrip(t))

\* the builtins bool(x), int(x), str(x) on a value that is not None:
\* [ok |-> TRUE, value |-> ...], or ok |-> FALSE for a ValueError
\* int(x): a string converts when, surrounding whitespace apart, it is all
\* digits
PyIntOf(v) ==
    CASE TypeOf(v) = "bool" -> [ok |-> TRUE, value |-> PyInt(IF v[2] THEN 1 ELSE 0)]
      [] TypeOf(v) = "int" -> [ok |-> TRUE, value |-> v]
      [] TypeOf(v) = "str" ->
            LET digits == Strip(v[2]) IN
            IF digits # <<>> /\ \A i \in 1..Len(digits) : IsDigit(digits[i])
              THEN [ok |-> TRUE, value |-> PyInt(DigitsValue(digits, 0))]
              ELSE [ok |-> FALSE, value |-> PyNone]

\* str(x)
PyStrOf(v) ==
    CASE TypeOf(v) = "bool" ->
            [ok |-> TRUE, value |-> PyStr(IF v[2] THEN T("True") ELSE T("False"))]
      [] TypeOf(v) = "int" -> [ok |-> TRUE, value |-> PyStr(DecimalText(v[2]))]
      [] TypeOf(v) = "str" -> [ok |-> TRUE, value |-> v]

PyConvert(type, v) ==
    CASE type = "bool" -> [ok |-> TRUE, value |-> PyBool(Truthy(v))]
      [] type = "int" -> PyIntOf(v)
      [] type = "str" -> PyStrOf(v)

(***************************************************************************)
(* ForwardingPort (supertunnel/port.py)                                    *)
(***************************************************************************)
\* sourcehost is None or a string (the empty string included); None and ""
\* are both false but they are not equal
NoHost == PyNone

\* ForwardingPort(sourceport, destinationport, sourcehost, destinationhost)
ForwardingPortOf(src, dst, sourcehost, destinationhost) ==
    [sourceport |-> src, destinationport |-> dst,
     sourcehost |-> sourcehost, destinationhost |-> destinationhost]

\* mutant: the destination host has no default
ForwardingPortNoDefault(src, dst) == ForwardingPortOf(src, dst, NoHost, PyStr(<<>>))

\* ForwardingPort(src, dst): sourcehost = None, destinationhost = "localhost"
ForwardingPort(src, dst) == ForwardingPortOf(src, dst, NoHost, PyStr(T("localhost")))

\* ForwardingPort.source: "if self.sourcehost:" is the truth value
PortSource(r) ==
    IF Truthy(r.sourcehost)
      THEN r.sourcehost[2] \o T(":") \o DecimalText(r.sourceport)
      ELSE DecimalText(r.sourceport)

\* ForwardingPort.destination
PortDestination(r) == r.destinationhost[2] \o T(":") \o DecimalText(r.destinationport)

\* ForwardingPort.__str__
PortStr(r) == PortSource(r) \o T(":") \o PortDestination(r)

(***************************************************************************)
(* Option descriptors and the registry (supertunnel/ssh/helpers.py,        *)
(* class body of SSHConfiguration)                                         *)
(***************************************************************************)
NoName == "None"

SSHFlag(id, flag) ==
    [id |-> id, kind |-> "flag", name |-> NoName, type |-> "bool",
     flag |-> flag, mode |-> ""]
SSHOption(id, name, type) ==
    [id |-> id, kind |-> "option", name |-> name, type |-> type,
     flag |-> "", mode |-> ""]
SSHPortForwarding(id, mode) ==
    [id |-> id, kind |-> "forward", name |-> NoName, type |-> "port",
     flag |-> "", mode |-> mode]

\* the class body: attribute name, descriptor object (by identity)
Declarations ==
    << <<"no_remote_command", SSHFlag(1, "-N")>>,
       <<"verbose", SSHFlag(2, "-v")>>,
       <<"interval", SSHOption(3, "ServerAliveInterval", "int")>>,
       <<"connect_timeout", SSHOption(4, "ConnectTimeout", "int")>>,
       <<"timeout", SSHOption(4, "ConnectTimeout", "int")>>,
       <<"host_check", SSHOption(5, "StrictHostKeyChecking", "str")>>,
       <<"batch_mode", SSHOption(6, "BatchMode", "bool")>>,
       <<"exit_on_forward_failure", SSHOption(7, "ExitOnForwardFailure", "bool")>>,
       <<"forward_local", SSHPortForwarding(8, "local")>>,
       <<"forward_remote", SSHPortForwarding(9, "remote")>> >>

\* __set_name__: if self.name is None: self.name = name
SetName(d, attr) == IF d.name = NoName THEN [d EXCEPT !.name = attr] ELSE d

\* the class attribute attr, after the class body has run
Descriptor(attr) ==
    LET i == CHOOSE k \in 1..Len(Declarations) : Declarations[k][1] = attr
    IN  SetName(Declarations[i][2], Declarations[i][1])

\* mutant: add appends without looking
SSHOptionsAddAlways(options, option) == Append(options, option)

\* SSHOptions.add: if option not in options: options.append(option)
SSHOptionsAdd(options, option) ==
    IF \E i \in 1..Len(options) : options[i].id = option.id
      THEN options
      ELSE Append(options, option)

\* SSHOptions._options[SSHConfiguration] once every __set_name__ has run
RECURSIVE RegisterAll(_, _)
RegisterAll(decls, options) ==
    IF decls = <<>> THEN options
    ELSE RegisterAll(Tail(decls),
                     SSHOptionsAdd(options, SetName(Head(decls)[2], Head(decls)[1])))

Registry == RegisterAll(Declarations, <<>>)

\* str.lower() of the descriptor names
Lower(name) ==
    CASE name = "ServerAliveInterval" -> "serveraliveinterval"
      [] name = "ConnectTimeout" -> "connecttimeout"
      [] name = "StrictHostKeyChecking" -> "stricthostkeychecking"
      [] name = "BatchMode" -> "batchmode"
      [] name = "ExitOnForwardFailure" -> "exitonforwardfailure"
      [] OTHER -> name

Keys == {Lower(Registry[i].name) : i \in 1..Len(Registry)}

\* SSHOptions.get(key, default) with default None
OptionsGet(c, name) ==
    IF c.options[Lower(name)] = Absent THEN PyNone ELSE c.options[Lower(name)]

\* SSHDescriptorBase.value
Value(d, c) == OptionsGet(c, d.name)

(***************************************************************************)
(* Rendering: the arguments() of each descriptor kind                      *)
(***************************************************************************)
SSHTypeError == <<T("raise SSHTypeError")>>

\* mutant: the flag is emitted for every value that is not None
SSHFlagArgumentsNotNone(d, c) ==
    LET value == Value(d, c) IN
    IF value = PyNone THEN <<>>
    ELSE IF TypeOf(value) # "bool" THEN SSHTypeError
    ELSE <<T(d.flag)>>

\* SSHFlag.arguments
SSHFlagArguments(d, c) ==
    LET value == Value(d, c) IN
    IF value = PyNone THEN <<>>
    ELSE IF TypeOf(value) # "bool" THEN SSHTypeError
    ELSE IF value[2] THEN <<T(d.flag)>>
    ELSE <<>>

\* mutant: a false value is treated like an unset one
SSHOptionArgumentsFalsy(d, c) ==
    LET value == Value(d, c) IN
    IF value = PyNone \/ ~Truthy(value) THEN <<>>
    ELSE IF d.type = "bool" THEN <<T("-o"), <<d.name, " ">> \o T("yes")>>
    ELSE IF d.type = "int"
      THEN <<T("-o"), <<d.name, " ">> \o DecimalText(value[2])>>
    ELSE <<T("-o"), <<d.name, " ">> \o value[2]>>

\* SSHOption.arguments
SSHOptionArguments(d, c) ==
    LET value == Value(d, c) IN
    IF value = PyNone THEN <<>>
    ELSE IF d.type = "bool"
      THEN <<T("-o"), <<d.name, " ">> \o (IF Truthy(value) THEN T("yes") ELSE T("no"))>>
    ELSE IF d.type = "int"
      THEN IF TypeOf(value) \in {"int", "bool"}
             THEN <<T("-o"), <<d.name, " ">> \o PyConvert("str", PyConvert("int", value).value).value[2]>>
             ELSE SSHTypeError
    ELSE IF d.type = "str"
      THEN IF TypeOf(value) = "str"
             THEN <<T("-o"), <<d.name, " ">> \o value[2]>>
             ELSE SSHTypeError
    ELSE SSHTypeError

\* mutant: the loop does not skip the rules it has seen
RECURSIVE ForwardLoopNoSeen(_, _, _)
ForwardLoopNoSeen(values, seen, forward_arg) ==
    IF values = <<>> THEN <<>>
    ELSE <<T(forward_arg), PortStr(Head(values))>>
           \o ForwardLoopNoSeen(Tail(values), seen, forward_arg)

\* the loop of SSHPortForwarding.arguments: for fport in values:
\*   if not fport or fport in seen: continue
\*   args.extend([forward_arg, str(fport)]); seen.add(fport)
RECURSIVE ForwardLoop(_, _, _)
ForwardLoop(values, seen, forward_arg) ==
    IF values = <<>> THEN <<>>
    ELSE IF Head(values) \in seen
      THEN ForwardLoop(Tail(values), seen, forward_arg)
      ELSE <<T(forward_arg), PortStr(Head(values))>>
             \o ForwardLoop(Tail(values), seen \cup {Head(values)}, forward_arg)

ForwardArg(mode) == IF mode = "local" THEN "-L" ELSE "-R"

\* SSHPortForwarding.arguments; lists is the heap of list objects
SSHPortForwardingArguments(d, c, lists) ==
    LET values == Value(d, c) IN
    IF values = PyNone \/ lists[values[2]] = <<>> THEN <<>>
    ELSE ForwardLoop(lists[values[2]], {}, ForwardArg(d.mode))

OptionArguments(d, c, lists) ==
    CASE d.kind = "flag" -> SSHFlagArguments(d, c)
      [] d.kind = "option" -> SSHOptionArguments(d, c)
      [] d.kind = "forward" -> SSHPortForwardingArguments(d, c, lists)

\* for option in self._ssh_options.options(self): args.extend(...)
RECURSIVE ExtendOptions(_, _, _)
ExtendOptions(options, c, lists) ==
    IF options = <<>> THEN <<>>
    ELSE OptionArguments(Head(options), c, lists)
           \o ExtendOptions(Tail(options), c, lists)

\* mutant: the trailing arguments are put before the host
ArgumentsArgsFirst(c, lists) ==
    <<T("ssh")>> \o ExtendOptions(Registry, c, lists) \o lists[c.args] \o c.host

\* SSHConfiguration.arguments(include_cmd_args=True)
Arguments(c, lists) ==
    <<T("ssh")>> \o ExtendOptions(Registry, c, lists) \o c.host \o lists[c.args]

(***************************************************************************)
(* SSHConfiguration objects.  cfgs[1] is the configuration, cfgs[2] the    *)
(* copy once copy() has been called.  The rule lists and the args list are *)
(* list objects on the heap, held by reference; host lists are replaced,   *)
(* never changed in place.                                                 *)
(***************************************************************************)
MaxOps == 3

HostName == T("host.example.com")
HostInputs ==
    { PyStr(HostName), <<"seq", <<>>>>, <<"seq", <<T("ssh"), HostName>>>>,
      <<"seq", <<T("ssh"), T("--"), T("ssh"), HostName>>>> }
ArgInputs == { <<T("echo"), T("Hello World")>>, <<T("-4")>> }
RawValues ==
    { PyNone, PyBool(TRUE), PyBool(FALSE), PyInt(10), PyStr(<<"1", "0">>),
      PyStr(T("no")) }
Rules == { ForwardingPort(10, 20), ForwardingPort(10, 30), ForwardingPort(20, 40) }
RuleLists ==
    { <<>>, <<ForwardingPort(10, 30), ForwardingPort(20, 40)>>,
      <<ForwardingPort(10, 20), ForwardingPort(10, 20)>> }

ScalarAttrs ==
    { "no_remote_command", "verbose", "interval", "connect_timeout", "timeout",
      "host_check", "batch_mode", "exit_on_forward_failure" }
ForwardAttrs == { "forward_local", "forward_remote" }

Targets == DOMAIN cfgs

\* SSHOptions.__setitem__
OptionsSet(c, name, v) == [c EXCEPT !.options[Lower(name)] = v]

\* SSHDescriptorBase.__set__; a failed conversion raises and stores nothing
DescriptorSet(d, c, value) ==
    IF value = PyNone THEN OptionsSet(c, d.name, value)
    ELSE IF PyConvert(d.type, value).ok
      THEN OptionsSet(c, d.name, PyConvert(d.type, value).value)
      ELSE c

\* cfg.<attr> = raw
Assign(t, attr, raw) ==
    /\ nops < MaxOps
    /\ cfgs' = [cfgs EXCEPT ![t] = DescriptorSet(Descriptor(attr), @, raw)]
    /\ nops' = nops + 1
    /\ UNCHANGED <<heap, supVars, portVars, cmdVars>>

\* mutant: "if x in host_args" in place of "while x in host_args"
RemoveOnce(s, x) ==
    IF Contains(s, x)
      THEN LET i == CHOOSE k \in 1..Len(s) : s[k] = x /\ \A j \in 1..(k - 1) : s[j] # x
           IN  SubSeq(s, 1, i - 1) \o SubSeq(s, i + 1, Len(s))
      ELSE s

\* while x in host_args: host_args.remove(x) -- remove() takes out the
\* first occurrence
RECURSIVE RemoveAll(_, _)
RemoveAll(s, x) ==
    IF Contains(s, x)
      THEN LET i == CHOOSE k \in 1..Len(s) : s[k] = x /\ \A j \in 1..(k - 1) : s[j] # x
           IN  RemoveAll(SubSeq(s, 1, i - 1) \o SubSeq(s, i + 1, Len(s)), x)
      ELSE s

\* SSHConfiguration.set_host
SetHostResult(args) ==
    LET host_args == IF TypeOf(args) = "str" THEN <<args[2]>> ELSE args[2]
    IN  RemoveAll(RemoveAll(host_args, T("ssh")), T("--"))

SetHost(t, args) ==
    /\ nops < MaxOps
    /\ cfgs' = [cfgs EXCEPT ![t].host = SetHostResult(args)]
    /\ nops' = nops + 1
    /\ UNCHANGED <<heap, supVars, portVars, cmdVars>>

\* SSHConfiguration.extend: self.args.extend(values), in place
Extend(t, values) ==
    /\ nops < MaxOps
    /\ heap' = [heap EXCEPT ![cfgs[t].args] = @ \o values]
    /\ nops' = nops + 1
    /\ UNCHANGED <<cfgs, supVars, portVars, cmdVars>>

\* SSHMultiDescriptor.__set__ with a new list object: cfg.<attr> = [...]
AssignRules(t, attr, rules) ==
    /\ nops < MaxOps
    /\ heap' = Append(heap, rules)
    /\ cfgs' = [cfgs EXCEPT ![t] = OptionsSet(@, Descriptor(attr).name, PyList(Len(heap) + 1))]
    /\ nops' = nops + 1
    /\ UNCHANGED <<supVars, portVars, cmdVars>>

\* SSHMultiDescriptor.values: setdefault(name, []) -- default is None here
ValuesOf(t, attr) ==
    IF cfgs[t].options[Lower(Descriptor(attr).name)] = Absent
      THEN Len(heap) + 1
      ELSE cfgs[t].options[Lower(Descriptor(attr).name)][2]

\* cfg.<attr>.append(rule): __get__ -> values(), then list.append in place
AppendRule(t, attr, rule) ==
    /\ nops < MaxOps
    /\ LET id == ValuesOf(t, attr) IN
         /\ heap' = IF id > Len(heap) THEN Append(heap, <<rule>>)
                    ELSE [heap EXCEPT ![id] = Append(@, rule)]
         /\ cfgs' = [cfgs EXCEPT ![t] = OptionsSet(@, Descriptor(attr).name, PyList(id))]
    /\ nops' = nops + 1
    /\ UNCHANGED <<supVars, portVars, cmdVars>>

\* SSHConfiguration.__init__(host, args, options) as copy() calls it:
\* _values.update(options) copies the entries, not the lists they refer to;
\* "host or []" and "args or []" keep a non-empty list object
CopyOf(c, lists) ==
    [options |-> c.options,
     host |-> c.host,
     args |-> IF lists[c.args] # <<>> THEN c.args ELSE Len(lists) + 1]

\* c = cfg.copy()
Copy ==
    /\ nops < MaxOps
    /\ Len(cfgs) = 1
    /\ cfgs' = Append(cfgs, CopyOf(cfgs[1], heap))
    /\ heap' = IF heap[cfgs[1].args] # <<>> THEN heap ELSE Append(heap, <<>>)
    /\ nops' = nops + 1
    /\ UNCHANGED <<supVars, portVars, cmdVars>>

NextConfig ==
    \/ \E t \in Targets, attr \in ScalarAttrs, raw \in RawValues : Assign(t, attr, raw)
    \/ \E t \in Targets, args \in HostInputs : SetHost(t, args)
    \/ \E t \in Targets, values \in ArgInputs : Extend(t, values)
    \/ \E t \in Targets, attr \in ForwardAttrs, rules \in RuleLists : AssignRules(t, attr, rules)
    \/ \E t \in Targets, attr \in ForwardAttrs, rule \in Rules : AppendRule(t, attr, rule)
    \/ Copy

(***************************************************************************)
(* ForwardingPort.parse (supertunnel/port.py).  A call record holds the    *)
(* input, as the fields and separators it is written with and as the       *)
(* value passed, the result of parse, the text str() gives for the rule    *)
(* and the result of parsing that text again.                              *)
(***************************************************************************)
MaxFields == 5

Fields == { <<>>, <<"1", "0">>, <<"2", "0">>, <<" ", "3", "0", " ">>, <<"host">> }
Separators == { ":", "," }

\* fields[1] seps[1] fields[2] ... as one text
RECURSIVE Join(_, _)
Join(fields, seps) ==
    IF Len(fields) = 1 THEN fields[1]
    ELSE fields[1] \o <<seps[1]>> \o Join(Tail(fields), Tail(seps))

\* the values passed to parse that are not strings: integers, tuples, rules
PyTuple(elements) == <<"tuple", elements>>
PyRule(r) == <<"rule", r>>
ValueInputs ==
    { PyInt(10), PyInt(40),
      PyTuple(<<20, 30>>), PyTuple(<<10, 20, 30>>), PyTuple(<<10>>),
      PyRule(ForwardingPort(15, 25)),
      PyRule(ForwardingPortOf(10, 20, PyStr(T("source")), PyStr(T("dest")))) }

IndexOf(t, sep) ==
    CHOOSE i \in 1..Len(t) : t[i] = sep /\ \A j \in 1..(i - 1) : t[j] # sep

\* str.split(sep, maxsplit)
RECURSIVE Split(_, _, _)
Split(t, sep, maxsplit) ==
    IF maxsplit = 0 \/ ~Contains(t, sep) THEN <<t>>
    ELSE LET i == IndexOf(t, sep) IN
         <<SubSeq(t, 1, i - 1)>> \o Split(SubSeq(t, i + 1, Len(t)), sep, maxsplit - 1)

\* the outcome of a call: a ValueError raised, or the rule returned
ValueError == [ok |-> FALSE, rule |-> PyNone]
Returned(r) == [ok |-> TRUE, rule |-> r]

\* mutant: a text that is no number is read as port 0
IntOfLenient(t) ==
    IF PyIntOf(PyStr(t)).ok THEN PyIntOf(PyStr(t)) ELSE [ok |-> TRUE, value |-> PyInt(0)]

\* int(text)
IntOf(t) == PyIntOf(PyStr(t))

\* ForwardingPort.parse on a string
ParseText(value) ==
    IF Contains(value, ",")
      THEN LET parts == Split(value, ",", 1)
               s == IntOf(Strip(parts[1]))
               d == IntOf(Strip(parts[2]))
           IN  IF s.ok /\ d.ok
                 THEN Returned(ForwardingPort(s.value[2], d.value[2]))
                 ELSE ValueError
    ELSE IF Contains(value, ":")
      THEN LET parts == Split(value, ":", 3) IN
           CASE Len(parts) = 4 ->
                  IF IntOf(parts[2]).ok /\ IntOf(parts[4]).ok
                    THEN Returned(ForwardingPortOf(IntOf(parts[2]).value[2],
                                                   IntOf(parts[4]).value[2],
                                                   PyStr(parts[1]), PyStr(parts[3])))
                    ELSE ValueError
             [] Len(parts) = 3 ->
                  IF IntOf(parts[1]).ok /\ IntOf(parts[3]).ok
                    THEN Returned(ForwardingPortOf(IntOf(parts[1]).value[2],
                                                   IntOf(parts[3]).value[2],
                                                   NoHost, PyStr(parts[2])))
                    ELSE ValueError
             [] Len(parts) = 2 ->
                  IF IntOf(parts[1]).ok /\ IntOf(parts[2]).ok
                    THEN Returned(ForwardingPort(IntOf(parts[1]).value[2],
                                                 IntOf(parts[2]).value[2]))
                    ELSE ValueError
    ELSE LET p == IntOf(Strip(value)) IN
         IF p.ok THEN Returned(ForwardingPort(p.value[2], p.value[2])) ELSE ValueError

\* ForwardingPort.parse
Parse(value) ==
    CASE TypeOf(value) = "int" -> Returned(ForwardingPort(value[2], value[2]))
      [] TypeOf(value) = "tuple" ->
            IF Len(value[2]) = 2
              THEN Returned(ForwardingPort(value[2][1], value[2][2]))
              ELSE ValueError
      [] TypeOf(value) = "rule" -> Returned(value[2])
      [] TypeOf(value) = "str" -> ParseText(value[2])

NoCall ==
    [stage |-> "idle", fields |-> <<>>, seps |-> <<>>, value |-> PyNone,
     result |-> ValueError, text |-> <<>>, again |-> ValueError]

\* ForwardingPort.parse(string)
ParseString ==
    /\ port.stage = "idle"
    /\ \E n \in 1..MaxFields :
         \E fields \in [1..n -> Fields], seps \in [1..(n - 1) -> Separators] :
            port' = [NoCall EXCEPT !.stage = "parsed",
                                   !.fields = fields,
                                   !.seps = seps,
                                   !.value = PyStr(Join(fields, seps)),
                                   !.result = ParseText(Join(fields, seps))]
    /\ UNCHANGED <<supVars, cfgVars, cmdVars, clean, call>>

\* ForwardingPort.parse(integer / tuple / rule)
ParseValue ==
    /\ port.stage = "idle"
    /\ \E value \in ValueInputs :
         port' = [NoCall EXCEPT !.stage = "parsed",
                                !.value = value,
                                !.result = Parse(value)]
    /\ UNCHANGED <<supVars, cfgVars, cmdVars, clean, call>>

\* str(rule) of the rule parse returned
StrPort ==
    /\ port.stage = "parsed"
    /\ port.result.ok
    /\ port' = [port EXCEPT !.stage = "printed", !.text = PortStr(port.result.rule)]
    /\ UNCHANGED <<supVars, cfgVars, cmdVars, clean, call>>

\* ForwardingPort.parse(str(rule))
ReparsePort ==
    /\ port.stage = "printed"
    /\ port' = [port EXCEPT !.stage = "reparsed", !.again = Parse(PyStr(port.text))]
    /\ UNCHANGED <<supVars, cfgVars, cmdVars, clean, call>>

NextPort ==
    \/ ParseString
    \/ ParseValue
    \/ StrPort
    \/ ReparsePort

(***************************************************************************)
(* clean_ports (supertunnel/port.py): a generator, consumed one rule at a  *)
(* time.  The call record holds the list passed, the position in it, the   *)
(* port_map, the rules yielded, the error raised, and, for a second pass   *)
(* over what the first pass yielded, the output of the first pass.         *)
(***************************************************************************)
MaxPorts == 4

CleanRules ==
    { ForwardingPort(10, 20), ForwardingPort(10, 30), ForwardingPort(20, 20),
      ForwardingPortOf(10, 20, NoHost, PyStr(T("other"))) }

\* the lists of at most n rules
PortLists(n) == UNION { [1..k -> CleanRules] : k \in 0..n }

\* DuplicateLocalPort(requested, current)
DuplicateLocalPort(requested, current) ==
    [requested |-> requested, current |-> current]

EmptyMap == [local \in {} |-> 0]

NoClean ==
    [stage |-> "idle", ports |-> <<>>, i |-> 1, port_map |-> EmptyMap,
     out |-> <<>>, error |-> PyNone, pass |-> 1, first |-> <<>>]

\* dict item assignment: port_map[local] = remote
MapSet(m, local, remote) ==
    [x \in DOMAIN m \cup {local} |-> IF x = local THEN remote ELSE m[x]]

\* mutant: a repeat takes its source port out of the map again
CleanBodyForget(c) ==
    LET p == c.ports[c.i]
        local == p.sourceport
        remote == p.destinationport
    IN  IF local \in DOMAIN c.port_map /\ c.port_map[local] # remote
          THEN [c EXCEPT !.stage = "raised",
                         !.error = DuplicateLocalPort(local, c.port_map[local])]
        ELSE IF local \in DOMAIN c.port_map
          THEN [c EXCEPT !.i = @ + 1,
                         !.port_map = [x \in DOMAIN c.port_map \ {local} |-> c.port_map[x]]]
        ELSE [c EXCEPT !.i = @ + 1,
                       !.port_map = MapSet(@, local, remote),
                       !.out = Append(@, p)]

\* mutant: the conflict test is left out, the first mapping wins silently
CleanBodySilent(c) ==
    LET p == c.ports[c.i]
        local == p.sourceport
        remote == p.destinationport
    IN  IF local \in DOMAIN c.port_map
          THEN [c EXCEPT !.i = @ + 1]
          ELSE [c EXCEPT !.i = @ + 1,
                         !.port_map = MapSet(@, local, remote),
                         !.out = Append(@, p)]

\* the body of the loop of clean_ports for the rule at position i
CleanBody(c) ==
    LET p == c.ports[c.i]
        local == p.sourceport
        remote == p.destinationport
    IN  \* if port_map.get(local, remote) != remote: raise
        IF local \in DOMAIN c.port_map /\ c.port_map[local] # remote
          THEN [c EXCEPT !.stage = "raised",
                         !.error = DuplicateLocalPort(local, c.port_map[local])]
        \* if local in port_map: continue
        ELSE IF local \in DOMAIN c.port_map
          THEN [c EXCEPT !.i = @ + 1]
        \* port_map[local] = remote; yield port
        ELSE [c EXCEPT !.i = @ + 1,
                       !.port_map = MapSet(@, local, remote),
                       !.out = Append(@, p)]

\* list(clean_ports(ports)) is started
CleanCall ==
    /\ clean.stage = "idle"
    /\ \E ports \in PortLists(MaxPorts) :
         clean' = [NoClean EXCEPT !.stage = "running", !.ports = ports]
    /\ UNCHANGED <<supVars, cfgVars, cmdVars, port, call>>

\* one turn of the loop
CleanStep ==
    /\ clean.stage = "running"
    /\ clean.i <= Len(clean.ports)
    /\ clean' = CleanBody(clean)
    /\ UNCHANGED <<supVars, cfgVars, cmdVars, port, call>>

\* the list is exhausted: the generator returns
CleanStop ==
    /\ clean.stage = "running"
    /\ clean.i > Len(clean.ports)
    /\ clean' = [clean EXCEPT !.stage = "done"]
    /\ UNCHANGED <<supVars, cfgVars, cmdVars, port, call>>

\* list(clean_ports(out)) on what the first pass yielded
CleanAgain ==
    /\ clean.stage = "done"
    /\ clean.pass = 1
    /\ clean' = [NoClean EXCEPT !.stage = "running",
                                !.ports = clean.out,
                                !.pass = 2,
                                !.first = clean.out]
    /\ UNCHANGED <<supVars, cfgVars, cmdVars, port, call>>

NextClean ==
    \/ CleanCall
    \/ CleanStep
    \/ CleanStop
    \/ CleanAgain

(***************************************************************************)
(* Single calls of ContinuousSSH._handle_ssh_line and of                   *)
(* SSHConfiguration.set_host on inputs drawn from bounded sets             *)
(***************************************************************************)
MaxLineLen == 3
MaxTokens == 4

LineFragments ==
    { "debug1:", "Entering interactive session", "not responding", "x" }

\* the lines _await_output yields: not empty ("if line:")
Lines(n) == UNION { [1..k -> LineFragments] : k \in 1..n }

HostTokens == { T("ssh"), T("--"), T("-p"), HostName }

\* set_host takes one string or a list of tokens
HostArguments(n) ==
    { PyStr(t) : t \in HostTokens }
      \cup { <<"seq", l>> : l \in UNION { [1..k -> HostTokens] : k \in 0..n } }

NoneCalled == [fn |-> "none", input |-> <<>>, result |-> <<>>]

\* action = self._handle_ssh_line(line, sshlog)
HandleLineCall ==
    /\ call.fn = "none"
    /\ \E line \in Lines(MaxLineLen) :
         call' = [fn |-> "_handle_ssh_line", input |-> line,
                  result |-> HandleSSHLine(line)]
    /\ UNCHANGED <<supVars, cfgVars, cmdVars, port, clean>>

\* cfg.set_host(args); cfg.host
SetHostCall ==
    /\ call.fn = "none"
    /\ \E args \in HostArguments(MaxTokens) :
         call' = [fn |-> "set_host", input |-> args, result |-> SetHostResult(args)]
    /\ UNCHANGED <<supVars, cfgVars, cmdVars, port, clean>>

NextCalls ==
    \/ HandleLineCall
    \/ SetHostCall

(***************************************************************************)
(* The command group (supertunnel/command.py) as click runs it.  A click   *)
(* context holds one object and has a parent; a new context starts with    *)
(* the object of its parent.  Context 1 is the group's, context 2 the      *)
(* subcommand's, context 3 the one ctx.invoke(run) makes inside forward.   *)
(* Objects are held by reference: cli.objects is the store, a context      *)
(* holds an index into it, 0 for None.                                     *)
(***************************************************************************)
MaxLaunches == 2

ConfigurationType == "SSHConfiguration"
SuperTunnelConfig == "SuperTunnelConfig"

\* SSHConfiguration(): no option set, no host, a new empty args list
NewConfiguration(lists) ==
    [options |-> [k \in Keys |-> Absent], host |-> <<>>, args |-> Len(lists) + 1]

\* object_type(): an SSHConfiguration, or SuperTunnelConfig(debug_format=None)
NewObject(type, lists) ==
    [type |-> type, cfg |-> NewConfiguration(lists), debug_format |-> PyNone]

\* click.Context.find_object: the closest object of the type, from the
\* context itself up through its parents
RECURSIVE FindObject(_, _, _)
FindObject(c, node, type) ==
    IF node = 0 THEN 0
    ELSE IF c.ctx[node] # 0 /\ c.objects[c.ctx[node]].type = type THEN c.ctx[node]
    ELSE FindObject(c, node - 1, type)

\* click.Context.ensure_object: find_object, and when there is none
\* "self.obj = rv = object_type()" on the context it is called on
EnsureObject(c, node, type) ==
    IF FindObject(c, node, type) # 0 THEN c
    ELSE [c EXCEPT !.objects = Append(@, NewObject(type, c.lists)),
                   !.lists = IF type = ConfigurationType THEN Append(@, <<>>) ELSE @,
                   !.ctx[node] = Len(c.objects) + 1]

\* SSHDescriptorBase.callback: nothing for None; else __set__ on the
\* configuration ensure_object gives
Callback(c, node, attr, value) ==
    IF value = PyNone THEN c
    ELSE LET e == EnsureObject(c, node, ConfigurationType)
             o == FindObject(e, node, ConfigurationType)
         IN  [e EXCEPT !.objects[o].cfg = DescriptorSet(Descriptor(attr), @, value)]

\* SSHMultiDescriptor.callback: self.values(cfg).extend(self.type(v) ...);
\* click passes a tuple, the empty one when the option is not given
MultiCallback(c, node, attr, values) ==
    LET e == EnsureObject(c, node, ConfigurationType)
        o == FindObject(e, node, ConfigurationType)
        cur == e.objects[o].cfg.options[Lower(Descriptor(attr).name)]
        id == IF cur = Absent THEN Len(e.lists) + 1 ELSE cur[2]
    IN  [e EXCEPT !.lists = IF cur = Absent THEN Append(@, values)
                            ELSE [@ EXCEPT ![id] = @ \o values],
                  !.objects[o].cfg = OptionsSet(@, Descriptor(attr).name, PyList(id))]

\* the command lines: the values click hands to the callbacks after its own
\* conversion (type=int, flag_value=..., boolean flags), the defaults of
\* the declarations included; a flag_value option that is not given is None
CommandLines ==
    [ interval : {PyInt(5), PyInt(30)},
      timeout : {PyInt(10), PyInt(3)},
      host_check : {PyNone, PyStr(T("accept-new")), PyStr(T("yes"))},
      verbose : {PyBool(TRUE), PyBool(FALSE)},
      batch_mode : {PyBool(TRUE), PyBool(FALSE)},
      debug_format : {PyNone, PyStr(T("standard")), PyStr(T("json"))},
      command : {"run", "forward", "_show_for_testing"},
      ports : { <<>>, <<ForwardingPort(80, 90)>> } ]

NoLine ==
    [interval |-> PyNone, timeout |-> PyNone, host_check |-> PyNone,
     verbose |-> PyNone, batch_mode |-> PyNone, debug_format |-> PyNone,
     command |-> "none", ports |-> <<>>]

NotInvoked ==
    [stage |-> "idle", line |-> NoLine, objects |-> <<>>, lists |-> <<>>,
     ctx |-> <<>>, echoed |-> <<>>, ssh |-> 0, given |-> PyNone,
     launched |-> <<>>, resets |-> 0]

\* main.make_context: the option callbacks of the group, in the order of
\* their declaration (command.py:21-42)
MainParse ==
    /\ cli.stage = "idle"
    /\ \E line \in CommandLines :
         LET c0 == [NotInvoked EXCEPT !.line = line, !.ctx = <<0>>]
             c1 == Callback(c0, 1, "interval", line.interval)
             c2 == Callback(c1, 1, "timeout", line.timeout)
             c3 == Callback(c2, 1, "host_check", line.host_check)
             c4 == Callback(c3, 1, "verbose", line.verbose)
             c5 == Callback(c4, 1, "batch_mode", line.batch_mode)
         IN  cli' = [c5 EXCEPT !.stage = "parsed"]
    /\ UNCHANGED <<supVars, cfgVars, portVars, timer, reg>>

\* main(ctx, verbose, debug_format): stc = ctx.ensure_object(SuperTunnelConfig)
MainBody ==
    /\ cli.stage = "parsed"
    /\ LET e == EnsureObject(cli, 1, SuperTunnelConfig)
           stc == FindObject(e, 1, SuperTunnelConfig)
       IN  cli' = [e EXCEPT !.stage = "main",
                            !.objects[stc].debug_format =
                               IF Truthy(cli.line.debug_format)
                                 THEN cli.line.debug_format ELSE @]
    /\ UNCHANGED <<supVars, cfgVars, portVars, timer, reg>>

\* cmd.make_context(cmd_name, args, parent=ctx): obj = parent.obj, then the
\* option callbacks of the subcommand (forward: -p and -R)
SubContext ==
    /\ cli.stage = "main"
    /\ LET c0 == [cli EXCEPT !.ctx = Append(@, cli.ctx[1])]
           c1 == IF cli.line.command = "forward"
                   THEN MultiCallback(
                          MultiCallback(c0, 2, "forward_local", cli.line.ports),
                          2, "forward_remote", <<>>)
                   ELSE c0
       IN  cli' = [c1 EXCEPT !.stage = "sub"]
    /\ UNCHANGED <<supVars, cfgVars, portVars, timer, reg>>

\* mutant: the constructor leaves the configuration as it is given
ContinuousSSHInitKeep(c) == c

\* ContinuousSSH.__init__: config.verbose = True; self.config = config
ContinuousSSHInit(c) == DescriptorSet(Descriptor("verbose"), c, PyBool(TRUE))

\* run(ctx, host_args) in the context node
RunBody(c, node) ==
    LET e == EnsureObject(c, node, ConfigurationType)
        o == FindObject(e, node, ConfigurationType)
        c1 == [e.objects[o].cfg EXCEPT !.host = SetHostResult(<<"seq", <<HostName>>>>)]
        c2 == DescriptorSet(Descriptor("no_remote_command"), c1, PyBool(TRUE))
        c3 == DescriptorSet(Descriptor("batch_mode"), c2, PyBool(TRUE))
        stc == e.objects[FindObject(e, node, SuperTunnelConfig)]
    IN  IF stc.debug_format \in {PyStr(T("standard")), PyStr(T("json"))}
          THEN [e EXCEPT !.objects[o].cfg = c3,
                         !.echoed = Arguments(c3, e.lists),
                         !.stage = "done"]
          ELSE [e EXCEPT !.objects[o].cfg = ContinuousSSHInit(c3),
                         !.given = c3.options["verbose"],
                         !.ssh = o,
                         !.stage = "supervising"]

\* the body of the subcommand: _show_for_testing echoes the arguments of
\* the shared configuration; forward lists its rules and invokes run in a
\* context of its own; run
Subcommand ==
    /\ cli.stage = "sub"
    /\ cli' =
         CASE cli.line.command = "_show_for_testing" ->
                LET e == EnsureObject(cli, 2, ConfigurationType)
                    o == FindObject(e, 2, ConfigurationType)
                IN  [e EXCEPT !.echoed = Arguments(e.objects[o].cfg, e.lists),
                              !.stage = "done"]
           [] cli.line.command = "run" -> RunBody(cli, 2)
           [] cli.line.command = "forward" ->
                LET e == EnsureObject(cli, 2, ConfigurationType)
                IN  RunBody([e EXCEPT !.ctx = Append(@, e.ctx[2])], 3)
    /\ UNCHANGED <<supVars, cfgVars, portVars, timer, reg>>

\* proc = ContinuousSSH(config, stream) by a caller that made the
\* configuration itself and assigned its verbose flag, or left it unset
Construct ==
    /\ cli.stage = "idle"
    /\ \E verbose \in {Absent, PyNone, PyBool(TRUE), PyBool(FALSE)},
          batch \in {Absent, PyBool(TRUE)} :
         LET c0 == NewConfiguration(<<>>)
             c1 == [c0 EXCEPT !.options["verbose"] = verbose,
                              !.options["batchmode"] = batch]
         IN  cli' = [NotInvoked EXCEPT
                       !.stage = "supervising",
                       !.lists = << <<>> >>,
                       !.objects = <<[type |-> ConfigurationType,
                                      cfg |-> ContinuousSSHInit(c1),
                                      debug_format |-> PyNone]>>,
                       !.given = verbose,
                       !.ssh = 1]
    /\ UNCHANGED <<supVars, cfgVars, portVars, timer, reg>>

\* _run_once: subprocess.Popen(self.config.arguments(), ...)
Launch ==
    /\ cli.stage = "supervising"
    /\ Len(cli.launched) < MaxLaunches
    /\ cli' = [cli EXCEPT !.launched =
                 Append(@, Arguments(cli.objects[cli.ssh].cfg, cli.lists))]
    /\ UNCHANGED <<supVars, cfgVars, portVars, timer, reg>>

\* cfg.verbose = value by a holder of the configuration object, while the
\* supervisor runs
ResetVerbose ==
    /\ cli.stage = "supervising"
    /\ cli.resets = 0
    /\ \E value \in {PyNone, PyBool(FALSE)} :
         cli' = [cli EXCEPT
                   !.objects[cli.ssh].cfg = DescriptorSet(Descriptor("verbose"), @, value),
                   !.resets = 1]
    /\ UNCHANGED <<supVars, cfgVars, portVars, timer, reg>>

NextCommand ==
    \/ MainParse
    \/ MainBody
    \/ SubContext
    \/ Subcommand
    \/ Construct
    \/ Launch
    \/ ResetVerbose

(***************************************************************************)
(* The pacing of run().  Two versions of the loop are in the sources: the  *)
(* context manager _backoff (supertunnel/ssh/continuous.py:78-95) and the  *)
(* loop body of run() in supertunnel/ssh.py:382-400, the module that       *)
(* "from .ssh import ContinuousSSH" names.  The clock is time.monotonic(), *)
(* kept here as the time elapsed since the attempt started; it advances    *)
(* between any two steps of the loop.                                      *)
(***************************************************************************)
MaxClock == 8

NoTimer ==
    [version |-> "none", pc |-> "idle", elapsed |-> 0, backoff_time |-> FloorBackoff,
     duration |-> 0, waittime |-> 0, slept |-> FALSE, threshold |-> 0,
     gap |-> 0, attempts |-> 0, error |-> "none"]

\* ContinuousSSH(...).run() of one of the two versions
TimerEnter ==
    /\ timer.pc = "idle"
    /\ \E version \in {"_backoff", "run"} :
         timer' = [NoTimer EXCEPT !.version = version, !.pc = "start"]
    /\ UNCHANGED <<supVars, cfgVars, portVars, cli, reg>>

\* the clock advances
Tick ==
    /\ timer.pc \notin {"idle", "raised"}
    /\ timer.elapsed < MaxClock
    /\ timer' = [timer EXCEPT !.elapsed = @ + 1]
    /\ UNCHANGED <<supVars, cfgVars, portVars, cli, reg>>

\* starttime = time.monotonic()  /  self._last_proc = time.monotonic():
\* gap is the time since the previous attempt started
TimerStart ==
    /\ timer.pc = "start"
    /\ timer' = [timer EXCEPT !.pc = "attempt",
                              !.gap = timer.elapsed,
                              !.elapsed = 0,
                              !.attempts = IF @ < 2 THEN @ + 1 ELSE @]
    /\ UNCHANGED <<supVars, cfgVars, portVars, cli, reg>>

\* yield  /  self._run_once(): the attempt, of any length
TimerAttempt ==
    /\ timer.pc = "attempt"
    /\ timer' = [timer EXCEPT !.pc = "measure"]
    /\ UNCHANGED <<supVars, cfgVars, portVars, cli, reg>>

\* duration = time.monotonic() - start; if duration < self._backoff_time:
\* _backoff computes waittime from duration; run() goes on to read the
\* clock again
TimerMeasure ==
    /\ timer.pc = "measure"
    /\ timer' =
         IF timer.elapsed < timer.backoff_time
           THEN [timer EXCEPT
                   !.duration = timer.elapsed,
                   !.threshold = timer.backoff_time,
                   !.waittime = IF timer.version = "_backoff"
                                  THEN timer.backoff_time - timer.elapsed ELSE @,
                   !.pc = IF timer.version = "_backoff" THEN "sleep" ELSE "remaining"]
           ELSE [timer EXCEPT
                   !.duration = timer.elapsed,
                   !.threshold = timer.backoff_time,
                   !.slept = FALSE,
                   !.backoff_time = FloorBackoff,
                   !.pc = "start"]
    /\ UNCHANGED <<supVars, cfgVars, portVars, cli, reg>>

\* run(): waittime = self._backoff_time - (time.monotonic() - self._last_proc)
TimerRemaining ==
    /\ timer.pc = "remaining"
    /\ timer' = [timer EXCEPT !.waittime = timer.backoff_time - timer.elapsed,
                              !.pc = "sleep"]
    /\ UNCHANGED <<supVars, cfgVars, portVars, cli, reg>>

\* time.sleep(waittime): ValueError for a negative length; then
\* self._backoff_time = min(2.0 * self._backoff_time, self._max_backoff_time)
TimerSleep ==
    /\ timer.pc = "sleep"
    /\ timer' =
         IF timer.waittime < 0
           THEN [timer EXCEPT !.pc = "raised", !.error = "ValueError"]
           ELSE [timer EXCEPT
                   !.elapsed = @ + timer.waittime,
                   !.slept = TRUE,
                   !.backoff_time = Min(2 * timer.backoff_time, MaxBackoff),
                   !.pc = "start"]
    /\ UNCHANGED <<supVars, cfgVars, portVars, cli, reg>>

NextTimer ==
    \/ TimerEnter
    \/ Tick
    \/ TimerStart
    \/ TimerAttempt
    \/ TimerMeasure
    \/ TimerRemaining
    \/ TimerSleep

(***************************************************************************)
(* Registrations.  __set_name__(owner, name) on a descriptor object names  *)
(* it, if it has no name yet, and adds it to the registry of the owner     *)
(* type; the class body of SSHConfiguration is one such sequence of calls. *)
(* reg holds the registry of a type under any sequence of them, the        *)
(* attribute names bound so far, and one object of the type.               *)
(***************************************************************************)
MaxRegistrations == 3

NoRegistry ==
    [options |-> <<>>, bound |-> {}, calls |-> <<>>,
     cfg |-> [options |-> [k \in Keys |-> Absent], host |-> <<>>, args |-> 1],
     written |-> <<>>]

\* SSHDescriptorBase.__set_name__(owner, name) for an attribute of the
\* class body
SetNameCall ==
    /\ Len(reg.calls) < MaxRegistrations
    /\ reg.written = <<>>
    /\ \E i \in 1..Len(Declarations) :
         LET attr == Declarations[i][1]
             d == SetName(Declarations[i][2], attr)
         IN  reg' = [reg EXCEPT !.options = SSHOptionsAdd(@, d),
                                !.bound = @ \cup { <<attr, d>> },
                                !.calls = Append(@, d.id)]
    /\ UNCHANGED <<supVars, cfgVars, portVars, cli, timer>>

\* obj.<attr> = value through a bound name: SSHDescriptorBase.__set__
RegistryAssign ==
    /\ reg.written = <<>>
    /\ \E b \in reg.bound, value \in {PyInt(10), PyInt(3), PyBool(TRUE)} :
         /\ b[2].kind # "forward"
         /\ reg' = [reg EXCEPT !.cfg = DescriptorSet(b[2], @, value),
                               !.written = <<b[1], b[2].id>>]
    /\ UNCHANGED <<supVars, cfgVars, portVars, cli, timer>>

NextRegistry ==
    \/ SetNameCall
    \/ RegistryAssign

InitPort ==
    /\ port = NoCall
    /\ clean = NoClean
    /\ call = NoneCalled

InitCommand ==
    /\ cli = NotInvoked
    /\ timer = NoTimer
    /\ reg = NoRegistry

(***************************************************************************)
(* Initial state and the supervisor's specification                        *)
(***************************************************************************)
\* ContinuousSSH.__init__: StatusMessage(stream, "disconnected"),
\* _backoff_time = 0.1
InitSupervisor ==
    /\ pc = "idle"
    /\ exc = "none"
    /\ status = "disconnected"
    /\ message = <<>>
    /\ hist = <<>>
    /\ proc = NoProc
    /\ child = NoChild
    /\ kills = 0
    /\ terminates = 0
    /\ killBeforeDisc = FALSE
    /\ rollovers = 0
    /\ orphans = 0
    /\ attempt = "none"
    /\ backoff_time = FloorBackoff
    /\ duration = 0
    /\ waittime = 0

\* cfg = SSHConfiguration(): no option set, no host, a new empty args list
InitConfig ==
    /\ cfgs = << [options |-> [k \in Keys |-> Absent], host |-> <<>>, args |-> 1] >>
    /\ heap = << <<>> >>
    /\ nops = 0

Init == InitSupervisor /\ InitConfig /\ InitPort /\ InitCommand

Next ==
    \/ RunEnter
    \/ BackoffStart
    \/ Popen
    \/ Launched
    \/ Connecting
    \/ While
    \/ Select
    \/ ReadLine
    \/ DiscStatus
    \/ Kill
    \/ ConnStatus
    \/ Timeout
    \/ Poll
    \/ Wait
    \/ EndStatus
    \/ Rollover
    \/ Finally
    \/ BackoffAfter
    \/ BackoffSleep
    \/ RunExcept
    \/ RaiseKeyboardInterrupt
    \/ RaiseError
    \/ ChildWrite
    \/ ChildExit

Spec == Init /\ [][Next]_vars

SpecConfig == Init /\ [][NextConfig]_vars

SpecPort == Init /\ [][NextPort]_vars

SpecClean == Init /\ [][NextClean]_vars

SpecCalls == Init /\ [][NextCalls]_vars

SpecCommand == Init /\ [][NextCommand]_vars

SpecTimer == Init /\ [][NextTimer]_vars

SpecRegistry == Init /\ [][NextRegistry]_vars

\* the supervisor thread keeps running its own cleanup and handler code
SpecFair == Spec /\ WF_vars(Finally) /\ WF_vars(RunExcept)

(***************************************************************************)
(* Claims about the supervisor                                             *)
(***************************************************************************)

\* C1: for the child whose output is 'Entering interactive session',
\* 'debug1: x', 'Host y not responding' followed by exit, a run of _run_once
\* that returns has set the statuses connecting, connected, disconnected in
\* that order (repeats removed) and has invoked kill exactly once, before the
\* status became disconnected.
C1_EndToEnd ==
    (attempt = "ended" /\ exc = "none" /\ child.output = C1Output /\ child.exits)
        => /\ hist = <<"connecting", "connected", "disconnected">>
           /\ kills = 1
           /\ killBeforeDisc

\* C2: whenever _run_once has ended after the child was launched, the status
\* is disconnected and a child without an exit code has been terminated.
C2_GuaranteedCleanup ==
    attempt = "ended"
        => /\ status = "disconnected"
           /\ proc.returncode = "None" => terminates >= 1

\* C3: a KeyboardInterrupt raised during launch, pump, wait or backoff sleep
\* ends run() by a normal return with the status disconnected: it is never
\* surfaced, no attempt is launched after it, and run() does return.
C3_Cancellation ==
    /\ [](exc = "KeyboardInterrupt" => pc \in {"finally", "except", "returned"})
    /\ [](pc = "returned" => exc = "KeyboardInterrupt" /\ status = "disconnected")
    /\ [][exc = "KeyboardInterrupt" =>
              pc' \notin {"backoff_start", "popen", "launched"}
              /\ (attempt' = "running" => attempt = "running")]_vars
    /\ (exc = "KeyboardInterrupt") ~> (pc = "returned")

\* C3 witness: run() has returned after an interrupt that struck an attempt
\* whose child was connected
C3_Witness ==
    pc = "returned" /\ attempt = "ended" /\ Contains(hist, "connected")
\* C4: no child of an earlier attempt is running when a child is launched,
\* and the loop comes round to a new launch only with the previous child's
\* exit code observed.
C4_OneChild ==
    /\ orphans = 0
    /\ (pc \in {"backoff_start", "popen"} /\ attempt = "ended")
          => ~child.alive /\ proc.returncode # "None" /\ rollovers = 1

\* C4 witness: a second attempt's child is running after a first attempt
\* that ended faster than the threshold
C4_Witness ==
    attempt = "running" /\ child.alive /\ backoff_time = 2

BackoffValues == {1, 2, 4, 8, 16, 20}

\* C5: the threshold doubles (capped at 2.0) after an attempt shorter than
\* it, falls to 0.1 after any other attempt, and so only ever takes the values
\* 0.1, 0.2, 0.4, 0.8, 1.6, 2.0.
C5_BackoffStep ==
    /\ [](backoff_time \in BackoffValues)
    /\ [][/\ (pc = "sleep" /\ pc' = "backoff_start")
                => /\ duration < backoff_time
                   /\ backoff_time' = Min(2 * backoff_time, 20)
          /\ (pc = "backoff_after" /\ pc' = "backoff_start")
                => /\ duration' >= backoff_time
                   /\ backoff_time' = 1
          /\ (pc = "backoff_after" /\ pc' = "sleep")
                => /\ duration' < backoff_time
                   /\ backoff_time' = backoff_time]_vars

\* C5 witness: the threshold has reached the cap, five doublings after 0.1
C5_Witness ==
    pc = "backoff_start" /\ backoff_time = 20 /\ duration < 20

\* C6: an error raised in the pump or the wait goes through the cleanup
\* block and out of run(): run() does not return normally, the status is
\* disconnected, an unreaped child has been terminated, and no attempt is
\* launched after the error.
C6_ErrorsFatal ==
    /\ [](exc = "Error" => pc \in {"finally", "except", "raised"})
    /\ [](pc = "raised" => exc = "Error")
    /\ []((exc = "Error" /\ pc \in {"except", "raised"} /\ attempt = "ended")
            => /\ status = "disconnected"
               /\ proc.returncode = "None" => terminates = 1)
    /\ [][exc = "Error" =>
              pc' \notin {"backoff_start", "popen", "launched"}
              /\ (attempt' = "running" => attempt = "running")]_vars
    /\ (exc = "Error") ~> (pc = "raised")

\* C6 witness: an error struck while the child was running; the cleanup
\* block terminated it and the error left run()
C6_Witness ==
    pc = "raised" /\ attempt = "ended" /\ terminates = 1
(***************************************************************************)
(* Claims about the configuration                                          *)
(***************************************************************************)
C7_Order ==
    << SetName(SSHFlag(1, "-N"), "no_remote_command"),
       SetName(SSHFlag(2, "-v"), "verbose"),
       SSHOption(3, "ServerAliveInterval", "int"),
       SSHOption(4, "ConnectTimeout", "int"),
       SSHOption(5, "StrictHostKeyChecking", "str"),
       SSHOption(6, "BatchMode", "bool"),
       SSHOption(7, "ExitOnForwardFailure", "bool"),
       SetName(SSHPortForwarding(8, "local"), "forward_local"),
       SetName(SSHPortForwarding(9, "remote"), "forward_remote") >>

C7_Tokens(i, c) == OptionArguments(C7_Order[i], c, heap)

C7_Expected(c) ==
    <<T("ssh")>>
      \o C7_Tokens(1, c) \o C7_Tokens(2, c) \o C7_Tokens(3, c) \o C7_Tokens(4, c)
      \o C7_Tokens(5, c) \o C7_Tokens(6, c) \o C7_Tokens(7, c) \o C7_Tokens(8, c)
      \o C7_Tokens(9, c)
      \o c.host \o heap[c.args]

C7_NothingSet(c) ==
    /\ \A k \in Keys : c.options[k] = Absent
    /\ c.host = <<>>
    /\ heap[c.args] = <<>>

\* C7: arguments() is 'ssh', then the tokens of -N, -v, ServerAliveInterval,
\* ConnectTimeout, StrictHostKeyChecking, BatchMode, ExitOnForwardFailure,
\* the -L rules and the -R rules in this order, then the host tokens, then
\* the trailing arguments; with nothing set it is exactly ['ssh'].
C7_ArgumentOrder ==
    \A t \in Targets :
        LET v == Arguments(cfgs[t], heap) IN
        /\ v = C7_Expected(cfgs[t])
        /\ v[1] = T("ssh")
        /\ C7_NothingSet(cfgs[t]) => v = <<T("ssh")>>

\* C7 witness: timeout = 10, one local rule (10, 20), a host and trailing
\* arguments are rendered in this order
C7_Witness ==
    /\ cfgs[1].host = <<HostName>>
    /\ Arguments(cfgs[1], heap) =
         << T("ssh"), T("-o"), <<"ConnectTimeout", " ", "1", "0">>,
            T("-L"), <<"1", "0", ":", "localhost", ":", "2", "0">>,
            HostName >>

\* the members of s in the order of their first occurrence
RECURSIVE FirstOccurrences(_)
FirstOccurrences(s) ==
    IF s = <<>> THEN <<>>
    ELSE LET init == FirstOccurrences(SubSeq(s, 1, Len(s) - 1)) IN
         IF \E i \in 1..(Len(s) - 1) : s[i] = s[Len(s)]
           THEN init
           ELSE Append(init, s[Len(s)])

\* the tokens that follow an occurrence of the token flag in v
RECURSIVE PairsAfter(_, _)
PairsAfter(v, flag) ==
    IF Len(v) < 2 THEN <<>>
    ELSE IF v[1] = flag
      THEN <<v[2]>> \o PairsAfter(SubSeq(v, 3, Len(v)), flag)
      ELSE PairsAfter(Tail(v), flag)

Count(v, tok) == Cardinality({i \in 1..Len(v) : v[i] = tok})

\* the rule list a configuration stores for a direction
StoredRules(c, attr) ==
    IF c.options[attr] = Absent \/ c.options[attr] = PyNone THEN <<>>
    ELSE heap[c.options[attr][2]]

C8_Flag(attr) == IF attr = "forward_local" THEN T("-L") ELSE T("-R")

\* 'SRC:DSTHOST:DSTPORT' for a rule with no source host
C8_Text(r) ==
    DecimalText(r.sourceport) \o T(":") \o r.destinationhost[2] \o T(":")
      \o DecimalText(r.destinationport)

\* C8: for each direction the vector holds exactly one pair [-L or -R,
\* 'SRC:DSTHOST:DSTPORT'] per distinct rule of the list now stored, in the
\* order of first occurrence, and none for a rule of a replaced list.
C8_ForwardingRules ==
    \A t \in Targets :
        LET v == Arguments(cfgs[t], heap) IN
        \A attr \in ForwardAttrs :
            LET firsts == FirstOccurrences(StoredRules(cfgs[t], attr)) IN
            /\ PairsAfter(v, C8_Flag(attr)) =
                 [i \in 1..Len(firsts) |-> C8_Text(firsts[i])]
            /\ Count(v, C8_Flag(attr)) = Len(firsts)

\* C8 witness: (10, 20) was appended, then the list was assigned
\* [(10, 30), (20, 40)]: the old list is garbage, the new rules render once
C8_Witness ==
    /\ \E id \in 1..Len(heap) : heap[id] = <<ForwardingPort(10, 20)>>
    /\ StoredRules(cfgs[1], "forward_local") =
         <<ForwardingPort(10, 30), ForwardingPort(20, 40)>>
    /\ Arguments(cfgs[1], heap) =
         << T("ssh"),
            T("-L"), <<"1", "0", ":", "localhost", ":", "3", "0">>,
            T("-L"), <<"2", "0", ":", "localhost", ":", "4", "0">> >>

\* what a user of a configuration sees of it: its options, with the rule
\* lists by content, and its argument vector
Observed(c, lists) ==
    [options |->
        [k \in Keys |->
            IF c.options[k] # Absent /\ TypeOf(c.options[k]) = "list"
              THEN <<"list", lists[c.options[k][2]]>>
              ELSE c.options[k]],
     arguments |-> Arguments(c, lists)]

\* a mutation through the copy: an option assigned, or a rule appended in
\* place to forward_local / forward_remote
MutatesCopy ==
    /\ Len(cfgs) = 2
    /\ \/ \E attr \in ScalarAttrs, raw \in RawValues : Assign(2, attr, raw)
       \/ \E attr \in ForwardAttrs, rule \in Rules : AppendRule(2, attr, rule)

\* C9: no mutation through the copy changes the original's option map, its
\* rule lists or its argument vector.
C9_CopyIndependence ==
    [][MutatesCopy => Observed(cfgs'[1], heap') = Observed(cfgs[1], heap)]_vars

C10_Flags ==
    { SetName(SSHFlag(1, "-N"), "no_remote_command"),
      SetName(SSHFlag(2, "-v"), "verbose") }

\* C10: a flag option contributes its one bare token when its stored value
\* is true and no token at all when it is false, None or not set.
C10_FlagOption ==
    \A t \in Targets :
        LET c == cfgs[t]
            v == Arguments(c, heap)
        IN  \A f \in C10_Flags :
                IF c.options[f.name] = PyBool(TRUE)
                  THEN /\ SSHFlagArguments(f, c) = <<T(f.flag)>>
                       /\ Count(v, T(f.flag)) = 1
                  ELSE /\ SSHFlagArguments(f, c) = <<>>
                       /\ Count(v, T(f.flag)) = 0

\* C10 witness: -v was set to a false value and -N to a true one
C10_Witness ==
    /\ cfgs[1].options["verbose"] = PyBool(FALSE)
    /\ cfgs[1].options["no_remote_command"] = PyBool(TRUE)
    /\ Arguments(cfgs[1], heap) = <<T("ssh"), T("-N")>>

(***************************************************************************)
(* Claims about valued options                                             *)
(***************************************************************************)
C11_Options ==
    << SSHOption(3, "ServerAliveInterval", "int"),
       SSHOption(4, "ConnectTimeout", "int"),
       SSHOption(5, "StrictHostKeyChecking", "str"),
       SSHOption(6, "BatchMode", "bool"),
       SSHOption(7, "ExitOnForwardFailure", "bool") >>

\* the text of a stored value of the declared type
C11_Text(type, v) ==
    CASE type = "bool" -> IF v[2] THEN T("yes") ELSE T("no")
      [] type = "int" -> DecimalText(v[2])
      [] type = "str" -> v[2]

\* the tokens the claim gives the option d when its stored value is v
C11_Expected(d, v) ==
    IF v = Absent \/ v = PyNone THEN <<>>
    ELSE <<T("-o"), <<d.name, " ">> \o C11_Text(d.type, v)>>

\* C11: a boolean option renders ['-o', 'NAME yes'] when true, ['-o',
\* 'NAME no'] when false, an integer or string option ['-o', 'NAME value']
\* when set, and each renders nothing when unset or set to None.
C11_ValuedOption ==
    \A t \in Targets, i \in 1..Len(C11_Options) :
        LET d == C11_Options[i]
            v == cfgs[t].options[Lower(d.name)]
        IN  /\ (v # Absent /\ v # PyNone) => TypeOf(v) = d.type
            /\ SSHOptionArguments(d, cfgs[t]) = C11_Expected(d, v)

\* C11 witness: timeout = 10, batch_mode = None, verbose = False
C11_Witness ==
    /\ cfgs[1].options["connecttimeout"] = PyInt(10)
    /\ cfgs[1].options["batchmode"] = PyNone
    /\ cfgs[1].options["verbose"] = PyBool(FALSE)
    /\ Arguments(cfgs[1], heap) =
         <<T("ssh"), T("-o"), <<"ConnectTimeout", " ", "1", "0">>>>

\* the words a boolean option value may be written as
C12_BoolWords ==
    { T("yes"), T("no"), T("true"), T("false"), T("True"), T("False"),
      T("on"), T("off"), T("1"), T("0") }

\* raw is a string that is no valid value of the declared type
C12_Invalid(type, raw) ==
    /\ raw # PyNone
    /\ TypeOf(raw) = "str"
    /\ CASE type = "int" -> ~(raw[2] # <<>> /\ \A i \in 1..Len(raw[2]) : IsDigit(raw[2][i]))
         [] type = "bool" -> raw[2] \notin C12_BoolWords
         [] type = "str" -> FALSE

\* C12: assigning to a typed option a string that is no valid value of its
\* declared type raises and stores no value, for every option type.
C12_TypedAssignmentFailure ==
    [][\A t \in Targets, attr \in ScalarAttrs, raw \in RawValues :
          (C12_Invalid(Descriptor(attr).type, raw) /\ Assign(t, attr, raw))
              => cfgs'[t].options = cfgs[t].options]_vars

(***************************************************************************)
(* Claims about ForwardingPort.parse                                       *)
(***************************************************************************)
\* C13: for every string x that parse accepts, parse(str(parse(x))) equals
\* parse(x) in all four fields.
C13_RoundTrip ==
    (port.stage = "reparsed" /\ TypeOf(port.value) = "str")
        => port.again = port.result

\* a field that is a number, surrounding whitespace apart
Numeric(f) ==
    LET d == Strip(f) IN d # <<>> /\ \A i \in 1..Len(d) : IsDigit(d[i])

NumberOf(f) == DigitsValue(Strip(f), 0)

ColonOnly(seps) == \A i \in 1..Len(seps) : seps[i] = ":"

\* the positions of the port fields in an input of n fields
PortPositions(n) ==
    CASE n = 1 -> {1}
      [] n = 2 -> {1, 2}
      [] n = 3 -> {1, 3}
      [] n = 4 -> {2, 4}

\* the malformed inputs: a tuple of more than two elements, more than four
\* colon-delimited fields, a port field that is empty or no number (a host
\* where a port belongs)
C14_Malformed ==
    \/ TypeOf(port.value) = "tuple" /\ Len(port.value[2]) > 2
    \/ /\ TypeOf(port.value) = "str"
       /\ ColonOnly(port.seps)
       /\ Len(port.fields) > 4
    \/ /\ TypeOf(port.value) = "str"
       /\ Len(port.fields) <= 4
       /\ ColonOnly(port.seps) \/ Len(port.fields) = 2
       /\ \E i \in PortPositions(Len(port.fields)) : ~Numeric(port.fields[i])

\* C14: for every malformed input parse raises a value error and returns
\* no rule.
C14_ParseFailure ==
    (port.stage # "idle" /\ C14_Malformed)
        => /\ ~port.result.ok
           /\ port.result.rule = PyNone
           /\ port.stage = "parsed"

\* C14 witness: 'host:20', a host where the source port belongs
C14_Witness ==
    /\ port.stage = "parsed"
    /\ port.value = PyStr(<<"host", ":", "2", "0">>)
    /\ ~port.result.ok

C15_Rule(sourcehost, sourceport, destinationhost, destinationport) ==
    [sourceport |-> sourceport, destinationport |-> destinationport,
     sourcehost |-> sourcehost, destinationhost |-> destinationhost]

C15_Localhost == PyStr(<<"localhost">>)

\* the rule the claim gives a well-formed input
C15_Expected ==
    LET f == port.fields
        n == Len(port.fields)
    IN  CASE TypeOf(port.value) = "int" ->
               C15_Rule(PyNone, port.value[2], C15_Localhost, port.value[2])
          [] TypeOf(port.value) = "tuple" ->
               C15_Rule(PyNone, port.value[2][1], C15_Localhost, port.value[2][2])
          [] TypeOf(port.value) = "rule" -> port.value[2]
          [] TypeOf(port.value) = "str" /\ n = 1 ->
               C15_Rule(PyNone, NumberOf(f[1]), C15_Localhost, NumberOf(f[1]))
          [] TypeOf(port.value) = "str" /\ n = 2 ->
               C15_Rule(PyNone, NumberOf(f[1]), C15_Localhost, NumberOf(f[2]))
          [] TypeOf(port.value) = "str" /\ n = 3 ->
               C15_Rule(PyNone, NumberOf(f[1]), PyStr(f[2]), NumberOf(f[3]))
          [] TypeOf(port.value) = "str" /\ n = 4 ->
               C15_Rule(PyStr(f[1]), NumberOf(f[2]), PyStr(f[3]), NumberOf(f[4]))

\* an input of one of the grammars: n, (s, d), a rule, 'P', 'S,D', 'S:D',
\* 'S:H:D', 'SH:S:DH:D'
C15_WellFormed ==
    \/ TypeOf(port.value) \in {"int", "rule"}
    \/ TypeOf(port.value) = "tuple" /\ Len(port.value[2]) = 2
    \/ /\ TypeOf(port.value) = "str"
       /\ Len(port.fields) <= 4
       /\ ColonOnly(port.seps) \/ Len(port.fields) = 2
       /\ \A i \in PortPositions(Len(port.fields)) : Numeric(port.fields[i])

\* C15: parse maps n to (n -> localhost:n), (s, d) to (s -> localhost:d),
\* 'P' to (P -> localhost:P), 'S,D' and 'S:D' to (S -> localhost:D), 'S:H:D'
\* to (S -> H:D), 'SH:S:DH:D' to (SH:S -> DH:D), the source host unset
\* unless given, and a rule to itself.
C15_ParseGrammars ==
    (port.stage # "idle" /\ C15_WellFormed)
        => /\ port.result.ok
           /\ port.result.rule = C15_Expected

\* C15 witness: 'host:10:host:20' gives (host:10 -> host:20)
C15_Witness ==
    /\ port.stage = "parsed"
    /\ port.value = PyStr(<<"host", ":", "1", "0", ":", "host", ":", "2", "0">>)
    /\ port.result.ok
    /\ port.result.rule.sourcehost = PyStr(<<"host">>)
    /\ port.result.rule.sourceport = 10
    /\ port.result.rule.destinationport = 20

(***************************************************************************)
(* Claims about clean_ports                                                *)
(***************************************************************************)
\* two rules of the list have the same source port and different
\* destination ports
Conflict(ports) ==
    \E i, j \in 1..Len(ports) :
        /\ ports[i].sourceport = ports[j].sourceport
        /\ ports[i].destinationport # ports[j].destinationport

Consumed == clean.stage \in {"done", "raised"}

\* C16: consuming clean_ports over a list with two rules of the same source
\* port and different destination ports always raises DuplicateLocalPort,
\* and the error carries the requested destination and the destination
\* already assigned to the source port.
C16_DuplicatePort ==
    (Consumed /\ clean.pass = 1 /\ Conflict(clean.ports))
        => /\ clean.stage = "raised"
           /\ clean.error.requested = clean.ports[clean.i].destinationport
           /\ \E k \in 1..(clean.i - 1) :
                /\ clean.ports[k].sourceport = clean.ports[clean.i].sourceport
                /\ clean.error.current = clean.ports[k].destinationport

\* C16 amended: ... always raises DuplicateLocalPort, and the error carries
\* the source port in question (as "requested") and the destination already
\* assigned to it (as "current"), which differs from the destination of the
\* rule that raised.
C16_DuplicatePortAmended ==
    (Consumed /\ clean.pass = 1 /\ Conflict(clean.ports))
        => /\ clean.stage = "raised"
           /\ clean.error.requested = clean.ports[clean.i].sourceport
           /\ clean.error.current # clean.ports[clean.i].destinationport
           /\ \E k \in 1..(clean.i - 1) :
                /\ clean.ports[k].sourceport = clean.ports[clean.i].sourceport
                /\ clean.error.current = clean.ports[k].destinationport
                /\ \A m \in 1..(k - 1) :
                     clean.ports[m].sourceport # clean.ports[k].sourceport

\* C16 witness: (10 -> 30) first, another rule, then (10 -> 20)
C16_Witness ==
    /\ clean.stage = "raised"
    /\ clean.ports = <<ForwardingPort(10, 30), ForwardingPort(20, 20),
                       ForwardingPort(10, 20)>>
    /\ clean.error = DuplicateLocalPort(10, 30)

\* C17: for every conflict-free list, clean_ports(clean_ports(rules)) yields
\* the same sequence as clean_ports(rules).
C17_Idempotent ==
    /\ (clean.pass = 2 /\ Consumed)
          => clean.stage = "done" /\ clean.out = clean.first
    /\ (clean.pass = 2 /\ clean.stage = "running")
          => clean.out = SubSeq(clean.first, 1, clean.i - 1)

\* C17 witness: a list with repeats, cleaned twice
C17_Witness ==
    /\ clean.pass = 2
    /\ clean.stage = "done"
    /\ clean.out = <<ForwardingPort(10, 20), ForwardingPort(20, 20)>>

\* C18: for a conflict-free list clean_ports yields the rules in order of
\* first occurrence and skips a rule only when it is an exact repeat, in all
\* four fields, of a rule already yielded.
C18_KeepsAllButRepeats ==
    (clean.pass = 1 /\ clean.stage = "done" /\ ~Conflict(clean.ports))
        => clean.out = FirstOccurrences(clean.ports)

(***************************************************************************)
(* Claims about the classifier and about set_host                          *)
(***************************************************************************)
Handled == call.fn = "_handle_ssh_line"

\* C19: _handle_ssh_line returns CONNECTED for a line containing 'Entering
\* interactive session', DISCONNECTED for a line containing 'not
\* responding', CONTINUE for every other line, and what it logs never
\* contains 'debug1'.
C19_Classifier ==
    Handled =>
        /\ Contains(call.input, "Entering interactive session")
              => call.result.action = CONNECTED
        /\ Contains(call.input, "not responding")
              => call.result.action = DISCONNECTED
        /\ (~Contains(call.input, "Entering interactive session")
              /\ ~Contains(call.input, "not responding"))
              => call.result.action = CONTINUE
        /\ ~Contains(call.result.message, "debug1:")

\* C19 amended: DISCONNECTED for a line containing 'not responding',
\* otherwise CONNECTED for a line containing 'Entering interactive session',
\* otherwise CONTINUE; one leading 'debug1:' is cut off before the line is
\* logged, so the logged line is the rest of the line.
C19_ClassifierAmended ==
    Handled =>
        /\ call.result.action =
             (IF Contains(call.input, "not responding") THEN DISCONNECTED
              ELSE IF Contains(call.input, "Entering interactive session") THEN CONNECTED
              ELSE CONTINUE)
        /\ call.result.message =
             (IF call.input[1] = "debug1:" THEN Tail(call.input) ELSE call.input)

\* C19 witness: 'debug1: x' is logged as 'x' and gives CONTINUE
C19_Witness ==
    /\ Handled
    /\ call.input = <<"debug1:", "x">>
    /\ call.result = [action |-> CONTINUE, message |-> <<"x">>]

\* the tokens of x that are neither 'ssh' nor '--', in their order
C20_Remaining(x) ==
    LET tokens == IF TypeOf(x) = "str" THEN <<x[2]>> ELSE x[2]
        keep == {i \in 1..Len(tokens) : tokens[i] # T("ssh") /\ tokens[i] # T("--")}
        \* the i-th kept position
        nth(i) == CHOOSE k \in keep : Cardinality({j \in keep : j <= k}) = i
    IN  [i \in 1..Cardinality(keep) |-> tokens[nth(i)]]

\* C20: after set_host(x), for x one string or a list of tokens, the host
\* list holds no 'ssh' and no '--' and is the remaining tokens of x in their
\* order.
C20_SetHost ==
    call.fn = "set_host" =>
        /\ ~Contains(call.result, T("ssh"))
        /\ ~Contains(call.result, T("--"))
        /\ call.result = C20_Remaining(call.input)

\* C20 witness: ['ssh', '--', 'ssh', 'host.example.com'] leaves the host
C20_Witness ==
    /\ call.fn = "set_host"
    /\ call.input = <<"seq", <<T("ssh"), T("--"), T("ssh"), HostName>>>>
    /\ call.result = <<HostName>>
(***************************************************************************)
(* C21..C30                                                                *)
(***************************************************************************)
\* the vector a subcommand rendered: echoed, or launched by the supervisor
Rendered ==
    IF cli.stage = "done" THEN {cli.echoed}
    ELSE {cli.launched[i] : i \in 1..Len(cli.launched)}

\* the tokens "-o NAME value" of a group option as the claim expects them
C21_Option(name, text) == <<name, " ">> \o text

C21_Expected(line) ==
    { C21_Option("ServerAliveInterval", DecimalText(line.interval[2])),
      C21_Option("ConnectTimeout", DecimalText(line.timeout[2])) }
      \cup (IF line.host_check = PyNone THEN {}
            ELSE { C21_Option("StrictHostKeyChecking", line.host_check[2]) })
      \cup (IF line.batch_mode = PyBool(TRUE)
              THEN { C21_Option("BatchMode", T("yes")) } ELSE {})

\* C21: every argument vector that a subcommand of the group renders (run,
\* forward, or the test subcommand reading the shared configuration)
\* contains the options handled by the group: the keep-alive interval
\* (default 5), the connect timeout (default 10), the host-key policy when
\* one is given, and "BatchMode yes" when batch mode is on (the default).
C21_GroupOptions ==
    cli.line.command # "none" =>
        \A v \in Rendered : \A tok \in C21_Expected(cli.line) : Contains(v, tok)
\* C22: within one attempt the status starts at connecting, becomes
\* connected only from connecting, and once it has become disconnected it
\* does not become connected or connecting again before the attempt ends,
\* whatever further lines are read.
C22_AttemptStates ==
    attempt = "running" /\ hist # <<>> =>
        /\ hist[1] = "connecting"
        /\ \A j \in 1..Len(hist) :
             hist[j] = "connected" => j > 1 /\ hist[j - 1] = "connecting"
        /\ \A i \in 1..Len(hist) : \A j \in (i + 1)..Len(hist) :
             hist[i] = "disconnected" => hist[j] \notin {"connected", "connecting"}

\* C23: a timeout of the poll only clears the displayed message and goes
\* on to poll the child; kill is invoked only after a line classified
\* DISCONNECTED, terminate only in the cleanup block when the child has no
\* exit code; nothing else signals the child, so a silent live child is
\* never signalled however many timeouts elapse.
C23_HangIsNotKill ==
    [][ /\ pc = "timeout" /\ pc' # pc =>
             \/ /\ pc' = "poll"
                /\ message' = <<>>
                /\ UNCHANGED <<status, hist, proc, child, kills, terminates>>
             \/ pc' = "finally" /\ exc' = "KeyboardInterrupt"
        /\ kills' > kills => pc = "kill" /\ Contains(message, "not responding")
        /\ terminates' > terminates => pc = "finally" /\ proc.returncode = "None"
        /\ (pc # "popen" /\ child'.signal # child.signal) =>
             \/ pc = "kill" /\ child'.signal = "KILL"
             \/ pc = "finally" /\ proc.returncode = "None" /\ child'.signal = "TERM"
      ]_vars

\* a silent child that is alive, after a timeout, with no signal sent
C23_Witness ==
    /\ attempt = "running"
    /\ pc = "poll"
    /\ child.alive
    /\ child.output = <<>>
    /\ orphans = 0
    /\ child.signal = "none"
    /\ kills = 0
    /\ terminates = 0
\* C24: when the elapsed time of an attempt is below the threshold the
\* supervisor sleeps exactly threshold minus elapsed, a strictly positive
\* amount, so that the next attempt starts no earlier than one threshold
\* after the previous one started; when the elapsed time is at least the
\* threshold the next attempt starts with no sleep.  The requested sleep is
\* never zero or negative, for any timing of the clock reads.
C24_BackoffPacing ==
    /\ timer.pc = "sleep" =>
         /\ timer.waittime > 0
         /\ timer.waittime = timer.threshold - timer.duration
         /\ timer.duration < timer.threshold
    /\ timer.error = "none"
    /\ timer.pc = "attempt" /\ timer.attempts > 1 =>
         IF timer.duration < timer.threshold
           THEN timer.slept /\ timer.gap >= timer.threshold
           ELSE ~timer.slept
\* C25: classifying a line (_handle_ssh_line) emits a log record and has no
\* other effect: the step that reads a line and classifies it leaves the
\* status and the message of the status display, the child and the rest of
\* the supervisor's state as they are.
C25_ClassifierPure ==
    [][ (pc = "readline" /\ proc.stdout # <<>> /\ pc' \in {"disc_status", "conn_status", "poll"})
          => /\ message' = message
             /\ UNCHANGED <<status, hist, child, kills, terminates, rollovers,
                            backoff_time, exc, attempt>>
      ]_vars

\* C26: in every attempt, whichever way it ends (the child exits on its
\* own, the child is killed, or an exception is raised during the read loop
\* or the wait), doRollover is invoked exactly once, after the read loop has
\* ended.
C26_RotationOnce ==
    /\ rollovers <= 1
    /\ (attempt = "ended" /\ hist # <<>> /\ hist[1] = "connecting") => rollovers = 1
    /\ (attempt = "running" /\ rollovers = 1) => pc = "finally"

\* the ids of the descriptors in a registry, in order
Ids(options) == [i \in 1..Len(options) |-> options[i].id]

\* the descriptors bound to an attribute name so far
BoundTo(attr) == { b[2] : b \in { x \in reg.bound : x[1] = attr } }

C27_ConnectTimeout(n) == <<"ConnectTimeout", " ">> \o DecimalText(n)

\* C27: after any sequence of registrations each descriptor object is in
\* the registry once, at the position of its first registration; the
\* descriptor bound to the names connect_timeout and timeout is registered
\* once, a value written through one name is read through the other, and
\* its "-o ConnectTimeout N" tokens are rendered exactly once.
C27_RegistryIdempotent ==
    /\ Ids(reg.options) = FirstOccurrences(reg.calls)
    /\ Cardinality({ i \in 1..Len(Registry) : Registry[i].id = Descriptor("timeout").id }) = 1
    /\ Descriptor("timeout") = Descriptor("connect_timeout")
    /\ \A a \in BoundTo("timeout"), b \in BoundTo("connect_timeout") :
         /\ Value(a, reg.cfg) = Value(b, reg.cfg)
         /\ Cardinality({ i \in 1..Len(reg.options) : reg.options[i] \in {a, b} }) = 1
         /\ \A n \in {3, 10} :
              Value(a, reg.cfg) = PyInt(n) =>
                 Count(ExtendOptions(reg.options, reg.cfg, heap), C27_ConnectTimeout(n)) = 1

\* both names registered and a value written through one of them
C27_Witness ==
    /\ BoundTo("timeout") # {}
    /\ BoundTo("connect_timeout") # {}
    /\ Len(reg.calls) > Len(reg.options)
    /\ reg.written = <<"timeout", Descriptor("timeout").id>>
    /\ Value(Descriptor("connect_timeout"), reg.cfg) = PyInt(3)

\* C28: every line the child wrote to its output before it exited has been
\* read and classified when the attempt ends, for every interleaving of the
\* child's writes and exit with the supervisor's select, readline and poll.
C28_NoOutputLost ==
    (attempt = "ended" /\ exc = "none") => proc.stdout = <<>>

\* C29: in any attempt kill is invoked on the child at most once, and never
\* after the supervisor has observed the child's exit code.
C29_KillAtMostOnce ==
    /\ kills <= 1
    /\ pc = "kill" => proc.returncode = "None"

\* C30: constructing a ContinuousSSH sets the verbose flag of the
\* configuration object it is given to true, whatever the flag was; the
\* object the caller holds is the one changed; as long as the flag is not
\* reset, every argument vector the supervisor launches contains "-v".
C30_ForcedVerbose ==
    (cli.stage = "supervising" /\ cli.resets = 0) =>
        /\ cli.objects[cli.ssh].cfg.options["verbose"] = PyBool(TRUE)
        /\ cli.ctx # <<>> => FindObject(cli, Len(cli.ctx), ConfigurationType) = cli.ssh
        /\ \A i \in 1..Len(cli.launched) : Contains(cli.launched[i], T("-v"))

\* a configuration given with the flag set to false, and launched
C30_Witness ==
    /\ cli.stage = "supervising"
    /\ cli.resets = 0
    /\ cli.given = PyBool(FALSE)
    /\ Len(cli.launched) >= 1

====
